---- MODULE Spec2Model ----
(***************************************************************************)
(* Verification model of the threads_metrics service.                      *)
(*                                                                         *)
(* SpecLock   : run_service executions sharing one state file (run lock).  *)
(* SpecClient : ThreadsClient requests: retries, backoff, cooldowns and    *)
(*              the admission semaphore.                                   *)
(* SpecWait   : the wait computed for one failed response (pure function). *)
(***************************************************************************)
EXTENDS Integers, Sequences, FiniteSets, TLC

(***************************************************************************)
(* Bounds of the model.                                                    *)
(***************************************************************************)
MaxTime == 3
RunTimeoutTicks == 1
MetricsTtlTicks == 2
MaxExecutions == 2
MaxLimit == 2
MaxFailures == 5

\* Python's None for an optional timestamp (state_store.py: Optional[str]).
None == 0 - 1

Runs == {"r1", "r2"}

VARIABLES
    now,        \* wall clock shared by all runs (ticks)
    file,       \* content of the state file (an AppState as JSON)
    mem,        \* mem[r]: the in-memory AppState of run r's StateStore
    rpc,        \* rpc[r]: position of run r inside run_service
    execs,      \* executions of the service started so far
    acquired,   \* acquired[r]: value of lock_acquired in run r
    released,   \* released[r]: run r has executed release_run_lock
    outcome,    \* outcome[r]: how the execution left the try block
    did,        \* did[r]: outside effects of run r so far
    wAttempt,   \* SpecWait: the attempt that failed
    wResponse,  \* SpecWait: the error response it got
    wResolved,  \* SpecWait: the resolved wait, reason and source (wait None before)
    clock,      \* ThreadsClient._current_time() (seconds)
    limit,      \* concurrency_limit of the client
    permits,    \* value of the client's semaphore
    cooldowns,  \* _account_cooldowns: account -> wait_until (None: no entry)
    tpc,        \* tpc[t]: position of task t in its logical request
    attempt,    \* attempt[t]: loop variable of _request
    wakeAt,     \* wakeAt[t]: when the sleep of task t ends (None: not asleep)
    sent,       \* sent[t]: HTTP requests sent for the current logical request
    fails,      \* fails[t]: failed responses of the current logical request
    reason,     \* reason[t]: kind of the last failure of task t
    failAt,     \* failAt[t]: when task t's last failure arrived
    rlUntil,    \* rlUntil[a]: latest t + w over the rate-limit responses for a
    stored_cursor,  \* SpecPosts: StateStore cursors, account -> cursor (None: no entry)
    cursor_before,  \* stored_cursor when collect_posts was called
    cursor_sets,    \* cursor_sets[a]: calls of set_last_processed_cursor for a
    fetch_result,   \* fetch_result[a]: how fetch_posts ended for account a
    posts_result,   \* collect_posts: "running", "returned" or "raised"
    post_ts,        \* StateStore post_metrics_updated_at, post -> time (None: no entry)
    post_ts_before, \* post_ts when collect_insights was called
    first_fetch,    \* first_fetch[p]: the _fetch task of post p
    retry_calls,    \* retry_calls[p]: fetch_post_insights calls of _retry_single
    retry_state,    \* retry_state[p]: position of the _retry_single task of p
    retry_pauses,   \* retry_pauses[p]: pauses _retry_single has drawn
    pause,          \* pause[p]: the pause _retry_single sleeps (None: not asleep)
    insights_phase, \* position of collect_insights
    insights_map,   \* post ids in the insight map collect_insights returns
    ts_written,     \* post ids passed to update_post_metrics_many
    disk,           \* SpecStore: the state file
    store,          \* the StateStore: status and in-memory AppState
    stime,          \* dt.datetime.now(TIMEZONE)
    asked,          \* the last should_refresh_post_metrics call and its answer
    sheet,          \* SpecSheet: the data rows of the worksheet, top to bottom
    sheet_before,   \* the data rows when the last write_posts_metrics began
    batch,          \* the rows passed to write_posts_metrics
    sheet_phase,    \* "idle", "written", "rewritten" or "raised"
    merged,         \* merged_df before _sort_by_publish_time, in the last call
    written,        \* grid rows in the range of the last call's batch_update (0: none)
    formatted,      \* grid rows the last call asked to format
    lmw_updated,    \* the last call reached update_last_metrics_write
    agg_posts,      \* SpecAggregate: the posts passed to aggregate_posts
    agg_insights,   \* the insight map passed to aggregate_posts
    agg_rows,       \* what aggregate_posts returned
    agg_called,     \* aggregate_posts has returned
    feed_cursor,    \* SpecDelivery: the account's cursor in the state file
    feed_run,       \* position of the current run
    feed_fetched,   \* posts collect_posts returned in the current run
    feed_seen,      \* posts some run has fetched
    feed_sheet,     \* posts written to the sheet
    feed_runs,      \* runs started so far
    feed_now,       \* the clock of the runs (ticks)
    feed_lmw,       \* last_metrics_write in the state file (None: never)
    feed_writes,    \* batch_update requests sent to the sheet so far
    gh_phase,       \* SpecCancel: position of cancel_pending_workflow_runs
    gh_iteration,   \* its local variable iteration
    gh_max,         \* max_iterations (None: not given)
    gh_interval,    \* interval_seconds
    gh_backoff,     \* backoff_seconds
    gh_stop,        \* local_stop_event.is_set()
    gh_runs,        \* what the two _fetch_runs of the last iteration returned
    gh_cancelled,   \* run ids the last iteration sent a cancel request for
    gh_ended,       \* how the last iteration ended
    pg_after,       \* SpecPaging: the "after" argument of fetch_posts
    pg_phase,       \* position of fetch_posts
    pg_params,      \* params["after"] of the next request (None: not set)
    pg_cursor,      \* the local variable cursor
    pg_posts,       \* the local list posts (post ids)
    pg_requests,    \* the "after" parameter of every request sent, in order
    pg_pages,       \* the pages the server returned, in order
    pg_result,      \* the ThreadsFetchResult returned
    iq_posts,       \* SpecRequests: the posts passed to collect_insights
    iq_phase,       \* position of collect_insights
    iq_task,        \* iq_task[p]: position of the _fetch / _retry_single task of p
    iq_calls,       \* iq_calls[p]: fetch_post_insights calls of _retry_single
    iq_attempt,     \* iq_attempt[p]: loop variable of _request in the current call
    iq_sent         \* iq_sent[p]: HTTP requests sent for p, by pass

lockVars == <<now, file, mem, rpc, execs, acquired, released, outcome, did>>

waitVars == <<wAttempt, wResponse, wResolved>>

clientVars == <<clock, limit, permits, cooldowns, tpc, attempt, wakeAt, sent,
                fails, reason, failAt, rlUntil>>

collectVars == <<stored_cursor, cursor_before, cursor_sets, fetch_result,
                 posts_result, post_ts, post_ts_before, first_fetch, retry_calls,
                 retry_state, retry_pauses, pause, insights_phase, insights_map,
                 ts_written>>

storeVars == <<disk, store, stime, asked>>

sheetVars == <<sheet, sheet_before, batch, sheet_phase, merged, written,
               formatted, lmw_updated>>

aggVars == <<agg_posts, agg_insights, agg_rows, agg_called>>

deliveryVars == <<feed_cursor, feed_run, feed_fetched, feed_seen, feed_sheet,
                  feed_runs, feed_now, feed_lmw, feed_writes>>

cancelVars == <<gh_phase, gh_iteration, gh_max, gh_interval, gh_backoff, gh_stop,
                gh_runs, gh_cancelled, gh_ended>>

pagingVars == <<pg_after, pg_phase, pg_params, pg_cursor, pg_posts, pg_requests,
                pg_pages, pg_result>>

requestVars == <<iq_posts, iq_phase, iq_task, iq_calls, iq_attempt, iq_sent>>

nonLockVars == <<waitVars, clientVars, collectVars, storeVars, sheetVars,
                 aggVars, deliveryVars, cancelVars, pagingVars, requestVars>>

nonWaitVars == <<lockVars, clientVars, collectVars, storeVars, sheetVars,
                 aggVars, deliveryVars, cancelVars, pagingVars, requestVars>>

nonClientVars == <<lockVars, waitVars, collectVars, storeVars, sheetVars,
                   aggVars, deliveryVars, cancelVars, pagingVars,
                   requestVars>>

nonCollectVars == <<lockVars, waitVars, clientVars, storeVars, sheetVars,
                    aggVars, deliveryVars, cancelVars, pagingVars,
                    requestVars>>

nonStoreVars == <<lockVars, waitVars, clientVars, collectVars, sheetVars,
                  aggVars, deliveryVars, cancelVars, pagingVars, requestVars>>

nonSheetVars == <<lockVars, waitVars, clientVars, collectVars, storeVars,
                  aggVars, deliveryVars, cancelVars, pagingVars, requestVars>>

nonAggVars == <<lockVars, waitVars, clientVars, collectVars, storeVars,
                sheetVars, deliveryVars, cancelVars, pagingVars, requestVars>>

nonDeliveryVars == <<lockVars, waitVars, clientVars, collectVars, storeVars,
                     sheetVars, aggVars, cancelVars, pagingVars, requestVars>>

nonCancelVars == <<lockVars, waitVars, clientVars, collectVars, storeVars,
                   sheetVars, aggVars, deliveryVars, pagingVars, requestVars>>

nonPagingVars == <<lockVars, waitVars, clientVars, collectVars, storeVars,
                   sheetVars, aggVars, deliveryVars, cancelVars, requestVars>>

nonRequestVars == <<lockVars, waitVars, clientVars, collectVars, storeVars,
                    sheetVars, aggVars, deliveryVars, cancelVars, pagingVars>>

vars == <<lockVars, waitVars, clientVars, collectVars, storeVars, sheetVars,
          aggVars, deliveryVars, cancelVars, pagingVars, requestVars>>

(***************************************************************************)
(* State store                                                             *)
(***************************************************************************)

\* AppState(): the empty default state.
AppState ==
    [cursors |-> 0,
     last_metrics_write |-> None,
     post_metrics_updated_at |-> None,
     run_started_at |-> None]

\* StateStore._load on a well-formed file: AppState.from_dict(json).
load(f) ==
    [cursors |-> f.cursors,
     last_metrics_write |-> f.last_metrics_write,
     post_metrics_updated_at |-> f.post_metrics_updated_at,
     run_started_at |-> f.run_started_at]

\* StateStore._save: the whole in-memory state replaces the file.
save(state) ==
    [cursors |-> state.cursors,
     last_metrics_write |-> state.last_metrics_write,
     post_metrics_updated_at |-> state.post_metrics_updated_at,
     run_started_at |-> state.run_started_at]

\* The run lock is the run_started_at field of AppState; the two methods that
\* set and clear it follow section 4.1 of the specification.
set_run_lock(state, t) == [state EXCEPT !.run_started_at = t]

clear_run_lock_unless_held(state) == state

clear_run_lock(state) == [state EXCEPT !.run_started_at = None]

lock_is_free_ge(state, max_age, t) ==
    \/ state.run_started_at = None
    \/ t - state.run_started_at >= max_age

\* try_acquire_run_lock's test: no lock held, or the held lock's age exceeds
\* max_age.
lock_is_free(state, max_age, t) ==
    \/ state.run_started_at = None
    \/ t - state.run_started_at > max_age

should_refresh_metrics_gt(state, ttl, t) ==
    \/ state.last_metrics_write = None
    \/ t - state.last_metrics_write > ttl

\* GoogleSheetsClient.should_refresh_metrics
should_refresh_metrics(state, ttl, t) ==
    \/ state.last_metrics_write = None
    \/ t - state.last_metrics_write >= ttl

(***************************************************************************)
(* run_service                                                             *)
(***************************************************************************)

Holding == {"locked", "read_tokens", "collect_posts", "collect_insights",
            "write", "finally"}

AwaitPoints == {"collect_posts", "collect_insights"}

lock_refused_next_falls_through == "locked"

\* "if not lock_acquired: ... return": the run ends.
lock_refused_next == "done"

cleanup_entry_no_finally(kind) ==
    IF kind \in {"cancelled_timeout", "cancelled_stop"} THEN "done" ELSE "finally"

cleanup_entry_errors_leave(kind) ==
    IF kind = "error" THEN "done" ELSE "finally"

\* try: ... finally: release_run_lock() -- every way out of the try block
\* passes through the finally clause.
cleanup_entry(kind) == "finally"

\* The variables of the other specifications stay at these values.
WaitIdle ==
    /\ wAttempt = 0
    /\ wResponse = [status |-> 0, rate_limit_phrase |-> FALSE,
                    headers |-> [retry_after |-> 0, usage |-> 0]]
    /\ wResolved = [wait |-> None, reason |-> "", source |-> ""]

ClientIdle ==
    /\ clock = 0
    /\ limit = 0
    /\ permits = 0
    /\ cooldowns = 0
    /\ tpc = 0
    /\ attempt = 0
    /\ wakeAt = 0
    /\ sent = 0
    /\ fails = 0
    /\ reason = 0
    /\ failAt = 0
    /\ rlUntil = 0

SheetIdle ==
    /\ sheet = 0
    /\ sheet_before = 0
    /\ batch = 0
    /\ sheet_phase = 0
    /\ merged = 0
    /\ written = 0
    /\ formatted = 0
    /\ lmw_updated = 0

AggIdle ==
    /\ agg_posts = 0
    /\ agg_insights = 0
    /\ agg_rows = 0
    /\ agg_called = 0

DeliveryIdle ==
    /\ feed_cursor = 0
    /\ feed_run = 0
    /\ feed_fetched = 0
    /\ feed_seen = 0
    /\ feed_sheet = 0
    /\ feed_runs = 0
    /\ feed_now = 0
    /\ feed_lmw = 0
    /\ feed_writes = 0

CancelIdle ==
    /\ gh_phase = 0
    /\ gh_iteration = 0
    /\ gh_max = 0
    /\ gh_interval = 0
    /\ gh_backoff = 0
    /\ gh_stop = 0
    /\ gh_runs = 0
    /\ gh_cancelled = 0
    /\ gh_ended = 0

PagingIdle ==
    /\ pg_after = 0
    /\ pg_phase = 0
    /\ pg_params = 0
    /\ pg_cursor = 0
    /\ pg_posts = 0
    /\ pg_requests = 0
    /\ pg_pages = 0
    /\ pg_result = 0

RequestIdle ==
    /\ iq_posts = 0
    /\ iq_phase = 0
    /\ iq_task = 0
    /\ iq_calls = 0
    /\ iq_attempt = 0
    /\ iq_sent = 0

StoreIdle ==
    /\ disk = 0
    /\ store = 0
    /\ stime = 0
    /\ asked = 0

CollectIdle ==
    /\ stored_cursor = 0
    /\ cursor_before = 0
    /\ cursor_sets = 0
    /\ fetch_result = 0
    /\ posts_result = 0
    /\ post_ts = 0
    /\ post_ts_before = 0
    /\ first_fetch = 0
    /\ retry_calls = 0
    /\ retry_state = 0
    /\ retry_pauses = 0
    /\ pause = 0
    /\ insights_phase = 0
    /\ insights_map = 0
    /\ ts_written = 0

LockIdle ==
    /\ now = 0
    /\ file = 0
    /\ mem = 0
    /\ rpc = 0
    /\ execs = 0
    /\ acquired = 0
    /\ released = 0
    /\ outcome = 0
    /\ did = 0

InitLock ==
    /\ now = 0
    /\ file = AppState
    /\ mem = [r \in Runs |-> AppState]
    /\ rpc = [r \in Runs |-> "idle"]
    /\ execs = 0
    /\ acquired = [r \in Runs |-> FALSE]
    /\ released = [r \in Runs |-> FALSE]
    /\ outcome = [r \in Runs |-> "none"]
    /\ did = [r \in Runs |-> {}]
    /\ WaitIdle
    /\ ClientIdle
    /\ CollectIdle
    /\ StoreIdle
    /\ SheetIdle
    /\ AggIdle
    /\ DeliveryIdle
    /\ CancelIdle
    /\ PagingIdle
    /\ RequestIdle

\* Time passes (also while a run is inside a blocking call).
Tick ==
    /\ now < MaxTime
    /\ now' = now + 1
    /\ UNCHANGED <<file, mem, rpc, execs, acquired, released, outcome, did>>
    /\ UNCHANGED nonLockVars

\* main_async starts the timeout and run_service; app_dependencies builds the
\* StateStore, which loads the file once.
app_dependencies(r) ==
    /\ rpc[r] = "idle"
    /\ mem' = [mem EXCEPT ![r] = load(file)]
    /\ execs < MaxExecutions
    /\ execs' = execs + 1
    /\ rpc' = [rpc EXCEPT ![r] = "constructed"]
    /\ acquired' = [acquired EXCEPT ![r] = FALSE]
    /\ released' = [released EXCEPT ![r] = FALSE]
    /\ outcome' = [outcome EXCEPT ![r] = "none"]
    /\ did' = [did EXCEPT ![r] = {}]
    /\ UNCHANGED <<now, file>>
    /\ UNCHANGED nonLockVars

\* lock_acquired = state_store.try_acquire_run_lock(max_age=run timeout)
try_acquire_run_lock(r) ==
    /\ rpc[r] = "constructed"
    /\ IF lock_is_free(mem[r], RunTimeoutTicks, now)
       THEN /\ mem' = [mem EXCEPT ![r] = set_run_lock(@, now)]
            /\ file' = save(mem'[r])
            /\ acquired' = [acquired EXCEPT ![r] = TRUE]
            /\ rpc' = [rpc EXCEPT ![r] = "locked"]
            /\ UNCHANGED outcome
       ELSE /\ acquired' = [acquired EXCEPT ![r] = FALSE]
            /\ rpc' = [rpc EXCEPT ![r] = lock_refused_next]
            /\ outcome' = [outcome EXCEPT ![r] = "not_acquired"]
            /\ UNCHANGED <<mem, file>>
    /\ UNCHANGED <<now, execs, released, did>>
    /\ UNCHANGED nonLockVars

\* if not sheets.should_refresh_metrics(ttl): return   (inside the try)
check_freshness(r) ==
    /\ rpc[r] = "locked"
    /\ IF should_refresh_metrics(mem[r], MetricsTtlTicks, now)
       THEN /\ rpc' = [rpc EXCEPT ![r] = "read_tokens"]
            /\ UNCHANGED outcome
       ELSE /\ rpc' = [rpc EXCEPT ![r] = cleanup_entry("skipped")]
            /\ outcome' = [outcome EXCEPT ![r] = "skipped"]
    /\ UNCHANGED <<now, file, mem, execs, acquired, released, did>>
    /\ UNCHANGED nonLockVars

\* tokens = sheets.read_account_tokens()   (blocking; may raise)
read_account_tokens(r) ==
    /\ rpc[r] = "read_tokens"
    /\ did' = [did EXCEPT ![r] = @ \cup {"tokens"}]
    /\ \/ /\ rpc' = [rpc EXCEPT ![r] = "collect_posts"]
          /\ UNCHANGED outcome
       \/ /\ rpc' = [rpc EXCEPT ![r] = cleanup_entry("error")]
          /\ outcome' = [outcome EXCEPT ![r] = "error"]
    /\ UNCHANGED <<now, file, mem, execs, acquired, released>>
    /\ UNCHANGED nonLockVars

\* posts = await collect_posts(...): API requests; an account whose fetch
\* returned a cursor has it stored (set_account_cursor saves the file); a
\* network-level error of fetch_posts is not caught and ends the run.
collect_posts(r) ==
    /\ rpc[r] = "collect_posts"
    /\ did' = [did EXCEPT ![r] = @ \cup {"api"}]
    /\ \/ /\ mem' = [mem EXCEPT ![r].cursors = 1]
          /\ file' = save(mem'[r])
          /\ rpc' = [rpc EXCEPT ![r] = "collect_insights"]
          /\ UNCHANGED outcome
       \/ /\ rpc' = [rpc EXCEPT ![r] = "collect_insights"]
          /\ UNCHANGED <<mem, file, outcome>>
       \/ /\ rpc' = [rpc EXCEPT ![r] = cleanup_entry("error")]
          /\ outcome' = [outcome EXCEPT ![r] = "error"]
          /\ UNCHANGED <<mem, file>>
    /\ UNCHANGED <<now, execs, acquired, released>>
    /\ UNCHANGED nonLockVars

\* insights = await collect_insights(...): API requests, then one
\* update_post_metrics_many when some fetch succeeded.
collect_insights(r) ==
    /\ rpc[r] = "collect_insights"
    /\ did' = [did EXCEPT ![r] = @ \cup {"api"}]
    /\ \/ /\ mem' = [mem EXCEPT ![r].post_metrics_updated_at = 1]
          /\ file' = save(mem'[r])
       \/ UNCHANGED <<mem, file>>
    /\ rpc' = [rpc EXCEPT ![r] = "write"]
    /\ UNCHANGED <<now, execs, acquired, released, outcome>>
    /\ UNCHANGED nonLockVars

\* metrics = aggregate_posts(...); sheets.write_posts_metrics(metrics)
\* (blocking): on success the sheet is written and last_metrics_write is
\* updated; a failure is re-raised.
write_posts_metrics(r) ==
    /\ rpc[r] = "write"
    /\ \/ /\ did' = [did EXCEPT ![r] = @ \cup {"sheet"}]
          /\ mem' = [mem EXCEPT ![r].last_metrics_write = now]
          /\ file' = save(mem'[r])
          /\ rpc' = [rpc EXCEPT ![r] = cleanup_entry("completed")]
          /\ outcome' = [outcome EXCEPT ![r] = "completed"]
       \/ /\ rpc' = [rpc EXCEPT ![r] = cleanup_entry("error")]
          /\ outcome' = [outcome EXCEPT ![r] = "error"]
          /\ UNCHANGED <<mem, file, did>>
    /\ UNCHANGED <<now, execs, acquired, released>>
    /\ UNCHANGED nonLockVars

\* main_async: the timeout task finished and the service task is cancelled; the
\* CancelledError is delivered at the await the service is suspended in.
cancel_on_timeout(r) ==
    /\ rpc[r] \in AwaitPoints
    /\ now - mem[r].run_started_at >= RunTimeoutTicks
    /\ rpc' = [rpc EXCEPT ![r] = cleanup_entry("cancelled_timeout")]
    /\ outcome' = [outcome EXCEPT ![r] = "cancelled_timeout"]
    /\ UNCHANGED <<now, file, mem, execs, acquired, released, did>>
    /\ UNCHANGED nonLockVars

\* main_async: SIGINT/SIGTERM set stop_event and the service task is cancelled.
cancel_on_signal(r) ==
    /\ rpc[r] \in AwaitPoints
    /\ rpc' = [rpc EXCEPT ![r] = cleanup_entry("cancelled_stop")]
    /\ outcome' = [outcome EXCEPT ![r] = "cancelled_stop"]
    /\ UNCHANGED <<now, file, mem, execs, acquired, released, did>>
    /\ UNCHANGED nonLockVars

\* finally: state_store.release_run_lock() -- clears the lock unconditionally
\* and saves.
release_run_lock(r) ==
    /\ rpc[r] = "finally"
    /\ mem' = [mem EXCEPT ![r] = clear_run_lock(@)]
    /\ file' = save(mem'[r])
    /\ released' = [released EXCEPT ![r] = TRUE]
    /\ rpc' = [rpc EXCEPT ![r] = "done"]
    /\ UNCHANGED <<now, execs, acquired, outcome, did>>
    /\ UNCHANGED nonLockVars

\* The process ends; a later invocation of the service starts afresh.
main(r) ==
    /\ rpc[r] = "done"
    /\ rpc' = [rpc EXCEPT ![r] = "idle"]
    /\ mem' = [mem EXCEPT ![r] = AppState]
    /\ acquired' = [acquired EXCEPT ![r] = FALSE]
    /\ released' = [released EXCEPT ![r] = FALSE]
    /\ outcome' = [outcome EXCEPT ![r] = "none"]
    /\ did' = [did EXCEPT ![r] = {}]
    /\ UNCHANGED <<now, file, execs>>
    /\ UNCHANGED nonLockVars

NextLock ==
    \/ Tick
    \/ \E r \in Runs : app_dependencies(r)
    \/ \E r \in Runs : try_acquire_run_lock(r)
    \/ \E r \in Runs : check_freshness(r)
    \/ \E r \in Runs : read_account_tokens(r)
    \/ \E r \in Runs : collect_posts(r)
    \/ \E r \in Runs : collect_insights(r)
    \/ \E r \in Runs : write_posts_metrics(r)
    \/ \E r \in Runs : cancel_on_timeout(r)
    \/ \E r \in Runs : cancel_on_signal(r)
    \/ \E r \in Runs : release_run_lock(r)
    \/ \E r \in Runs : main(r)

SpecLock == InitLock /\ [][NextLock]_vars

(***************************************************************************)
(* ThreadsClient: the wait after a failed response                         *)
(***************************************************************************)

MAX_ATTEMPTS_plus_one == 5 + 1

MAX_ATTEMPTS == 5
DEFAULT_INITIAL_BACKOFF_SECONDS == 5
DEFAULT_BACKOFF_MULTIPLIER == 3
RATE_LIMIT_INITIAL_BACKOFF_SECONDS == 10
RATE_LIMIT_BACKOFF_MULTIPLIER == 2

Max(a, b) == IF a >= b THEN a ELSE b

\* A parsed JSON value: tag is "dict", "list", "num", "numstr" (a string that
\* float() accepts), "text" (any other string) or "null"; a dict's kids are
\* its items in order (k the key), a list's kids its elements (k empty).
JNum(n) == [tag |-> "num", n |-> n, kids |-> <<>>]
JNumStr(n) == [tag |-> "numstr", n |-> n, kids |-> <<>>]
JText == [tag |-> "text", n |-> 0, kids |-> <<>>]
JNull == [tag |-> "null", n |-> 0, kids |-> <<>>]
JDict(items) == [tag |-> "dict", n |-> 0, kids |-> items]
JList(elems) == [tag |-> "list", n |-> 0, kids |-> [i \in DOMAIN elems |-> [k |-> "", v |-> elems[i]]]]

ESTIMATED_KEY == "estimated_time_to_regain_access"

RECURSIVE find_estimated_time(_)
RECURSIVE find_in_values(_, _)

\* The loop "for value in ...: nested = find(value); if nested is not None:
\* return nested" over kids[i..].
find_in_values(kids, i) ==
    IF i > Len(kids) THEN JNull
    ELSE LET nested == find_estimated_time(kids[i].v)
         IN  IF nested.tag # "null" THEN nested ELSE find_in_values(kids, i + 1)

\* ThreadsClient._find_estimated_time (JNull stands for None)
find_estimated_time(data) ==
    IF data.tag = "dict"
    THEN IF \E i \in DOMAIN data.kids : data.kids[i].k = ESTIMATED_KEY
         THEN data.kids[CHOOSE i \in DOMAIN data.kids : data.kids[i].k = ESTIMATED_KEY].v
         ELSE find_in_values(data.kids, 1)
    ELSE IF data.tag = "list"
    THEN find_in_values(data.kids, 1)
    ELSE JNull

\* ThreadsClient._parse_retry_after: strip, float(), clamp at 0; None when the
\* value is blank or float() raises ValueError.
parse_retry_after(raw) ==
    IF raw.kind = "num" THEN Max(raw.val, 0) ELSE None

\* ThreadsClient._parse_usage_header: json.loads, search, float(), clamp at 0.
parse_usage_header(raw) ==
    IF raw.kind # "json" THEN None
    ELSE LET estimated == find_estimated_time(raw.doc)
         IN  IF estimated.tag \in {"num", "numstr"}
             THEN Max(estimated.n, 0)
             ELSE None

\* "if retry_after:" / "if business_usage:" -- the header is there and not
\* the empty string.
header_given(raw) == raw.kind \notin {"absent", "empty"}

extract_rate_limit_wait_usage_first(headers) ==
    IF header_given(headers.usage) /\ parse_usage_header(headers.usage) # None
    THEN [wait |-> parse_usage_header(headers.usage), source |-> "business_use_case"]
    ELSE IF header_given(headers.retry_after) /\ parse_retry_after(headers.retry_after) # None
    THEN [wait |-> parse_retry_after(headers.retry_after), source |-> "retry_after"]
    ELSE [wait |-> None, source |-> "unknown"]

\* ThreadsClient._extract_rate_limit_wait
extract_rate_limit_wait(headers) ==
    IF header_given(headers.retry_after) /\ parse_retry_after(headers.retry_after) # None
    THEN [wait |-> parse_retry_after(headers.retry_after), source |-> "retry_after"]
    ELSE IF header_given(headers.usage) /\ parse_usage_header(headers.usage) # None
    THEN [wait |-> parse_usage_header(headers.usage), source |-> "business_use_case"]
    ELSE [wait |-> None, source |-> "unknown"]

compute_default_wait_doubling(n) ==
    DEFAULT_INITIAL_BACKOFF_SECONDS * (2 ^ Max(n - 1, 0))

\* ThreadsClient._compute_default_wait
compute_default_wait(n) ==
    DEFAULT_INITIAL_BACKOFF_SECONDS * (DEFAULT_BACKOFF_MULTIPLIER ^ Max(n - 1, 0))

\* ThreadsClient._compute_rate_limit_wait
compute_rate_limit_wait(n) ==
    RATE_LIMIT_INITIAL_BACKOFF_SECONDS * (RATE_LIMIT_BACKOFF_MULTIPLIER ^ Max(n - 1, 0))

\* ThreadsClient._resolve_wait_for_status_error
resolve_wait_for_status_error(n, response) ==
    IF response.status = 403 /\ response.rate_limit_phrase
    THEN LET header == extract_rate_limit_wait(response.headers)
         IN  IF header.wait # None
             THEN [wait |-> header.wait, reason |-> "threads_profile_rate_limit",
                   source |-> header.source]
             ELSE [wait |-> compute_rate_limit_wait(n),
                   reason |-> "threads_profile_rate_limit",
                   source |-> "fallback_backoff"]
    ELSE [wait |-> compute_default_wait(n), reason |-> "http_status",
          source |-> "static_backoff"]

\* Header values the server may send.
Absent == [kind |-> "absent", val |-> 0, doc |-> JNull, name |-> "absent"]

RetryAfterValues ==
    { Absent,
      [kind |-> "empty", val |-> 0, doc |-> JNull, name |-> "empty"],
      [kind |-> "blank", val |-> 0, doc |-> JNull, name |-> "blank"],
      [kind |-> "date", val |-> 0, doc |-> JNull, name |-> "http-date"],
      [kind |-> "num", val |-> 12, doc |-> JNull, name |-> "12"],
      [kind |-> "num", val |-> 0, doc |-> JNull, name |-> "0"],
      [kind |-> "num", val |-> 0 - 5, doc |-> JNull, name |-> "-5"] }

UsageJson(name, doc) == [kind |-> "json", val |-> 0, doc |-> doc, name |-> name]

UsageValues ==
    { Absent,
      [kind |-> "empty", val |-> 0, doc |-> JNull, name |-> "empty"],
      [kind |-> "badjson", val |-> 0, doc |-> JNull, name |-> "not json"],
      \* {"1": [{"type": "x", "estimated_time_to_regain_access": 30}]}
      UsageJson("nested 30",
          JDict(<<[k |-> "1", v |-> JList(<<JDict(<<
              [k |-> "type", v |-> JText],
              [k |-> ESTIMATED_KEY, v |-> JNum(30)]>>)>>)]>>)),
      \* {"1": [{"estimated_time_to_regain_access": null}],
      \*  "2": [{"estimated_time_to_regain_access": 7}]}
      UsageJson("null then 7",
          JDict(<<[k |-> "1", v |-> JList(<<JDict(<<[k |-> ESTIMATED_KEY, v |-> JNull]>>)>>)],
                  [k |-> "2", v |-> JList(<<JDict(<<[k |-> ESTIMATED_KEY, v |-> JNum(7)]>>)>>)]>>)),
      \* {"estimated_time_to_regain_access": "soon", "1": {"estimated_time_to_regain_access": 9}}
      UsageJson("text shadows 9",
          JDict(<<[k |-> ESTIMATED_KEY, v |-> JText],
                  [k |-> "1", v |-> JDict(<<[k |-> ESTIMATED_KEY, v |-> JNum(9)]>>)]>>)),
      \* {"1": [{"call_count": 100}]}
      UsageJson("no estimate",
          JDict(<<[k |-> "1", v |-> JList(<<JDict(<<[k |-> "call_count", v |-> JNum(100)]>>)>>)]>>)),
      \* {"estimated_time_to_regain_access": -3}
      UsageJson("-3", JDict(<<[k |-> ESTIMATED_KEY, v |-> JNum(0 - 3)]>>)),
      \* {"estimated_time_to_regain_access": "15"}
      UsageJson("string 15", JDict(<<[k |-> ESTIMATED_KEY, v |-> JNumStr(15)]>>)),
      \* 42
      UsageJson("bare number", JNum(42)) }

\* Error responses: status, whether the body holds the rate-limit phrase, and
\* the two headers.
ErrorResponses ==
    [status : {403, 500},
     rate_limit_phrase : BOOLEAN,
     headers : [retry_after : RetryAfterValues, usage : UsageValues]]

(***************************************************************************)
(* SpecWait: one failed response and the wait resolved for it              *)
(***************************************************************************)

InitWait ==
    /\ wAttempt \in 1..(MAX_ATTEMPTS - 1)
    /\ wResponse \in ErrorResponses
    /\ wResolved = [wait |-> None, reason |-> "", source |-> ""]
    /\ LockIdle
    /\ ClientIdle
    /\ CollectIdle
    /\ StoreIdle
    /\ SheetIdle
    /\ AggIdle
    /\ DeliveryIdle
    /\ CancelIdle
    /\ PagingIdle
    /\ RequestIdle

\* wait_seconds, reason, source = self._resolve_wait_for_status_error(attempt, exc)
resolve_wait ==
    /\ wResolved.reason = ""
    /\ wResolved' = resolve_wait_for_status_error(wAttempt, wResponse)
    /\ UNCHANGED <<wAttempt, wResponse>>
    /\ UNCHANGED nonWaitVars

NextWait == resolve_wait

SpecWait == InitWait /\ [][NextWait]_vars

(***************************************************************************)
(* SpecClient: concurrent logical requests of one ThreadsClient            *)
(***************************************************************************)

Accounts == {"A", "B"}

Tasks == {"t1", "t2", "t3"}

\* account_name of the request each task makes.
account_name == [t \in Tasks |-> IF t = "t3" THEN "B" ELSE "A"]

NoHeaders == [retry_after |-> Absent, usage |-> Absent]

\* The error responses the simulated server answers with: a profile rate
\* limit with "Retry-After: 12" and a plain 500.
ServerErrors ==
    { [status |-> 403, rate_limit_phrase |-> TRUE,
       headers |-> [retry_after |-> [kind |-> "num", val |-> 12, doc |-> JNull, name |-> "12"],
                    usage |-> Absent]],
      [status |-> 500, rate_limit_phrase |-> FALSE, headers |-> NoHeaders] }

TotalFails == fails["t1"] + fails["t2"] + fails["t3"]

Sleeping == {"backoff_sleep", "cooldown_sleep"}

\* Tasks inside "async with self._semaphore".
HoldsPermit(t) == tpc[t] \in {"in_flight", "backoff_sleep", "cooldown_sleep"}

locked_never(value) == FALSE

\* "async with self._semaphore" has to wait: asyncio.Semaphore(concurrency_limit)
\* has no permit left.
locked(value) == value = 0

\* ThreadsClient._respect_account_cooldown: the time to sleep (0: none) and
\* the cooldown map it leaves.
respect_account_cooldown(cds, a, t_now) ==
    IF cds[a] = None THEN [sleep |-> 0, cds |-> cds]
    ELSE IF cds[a] <= t_now THEN [sleep |-> 0, cds |-> [cds EXCEPT ![a] = None]]
    ELSE [sleep |-> cds[a] - t_now, cds |-> cds]

clear_account_cooldown_all(cds, a) == [b \in Accounts |-> None]

\* ThreadsClient._clear_account_cooldown
clear_account_cooldown(cds, a) == [cds EXCEPT ![a] = None]

\* ThreadsClient._schedule_account_cooldown
schedule_account_cooldown(cds, a, wait_seconds, t_now) ==
    IF wait_seconds <= 0 THEN [cds EXCEPT ![a] = None]
    ELSE [cds EXCEPT ![a] = t_now + wait_seconds]

\* "if attempt >= self._MAX_ATTEMPTS: raise"
attempts_exhausted(n) == n >= MAX_ATTEMPTS

InitClient ==
    /\ clock = 0
    /\ limit \in 1..MaxLimit
    /\ permits = limit
    /\ cooldowns = [a \in Accounts |-> None]
    /\ tpc = [t \in Tasks |-> "new"]
    /\ attempt = [t \in Tasks |-> 0]
    /\ wakeAt = [t \in Tasks |-> None]
    /\ sent = [t \in Tasks |-> 0]
    /\ fails = [t \in Tasks |-> 0]
    /\ reason = [t \in Tasks |-> ""]
    /\ failAt = [t \in Tasks |-> None]
    /\ rlUntil = [a \in Accounts |-> 0]
    /\ LockIdle
    /\ WaitIdle
    /\ CollectIdle
    /\ StoreIdle
    /\ SheetIdle
    /\ AggIdle
    /\ DeliveryIdle
    /\ CancelIdle
    /\ PagingIdle
    /\ RequestIdle

\* One pass of the loop of _request up to its first suspension: attempt n
\* waits out the account's cooldown (one sleep) or sends its HTTP request.
\* last_reason and last_fail_at describe the failure that led to this pass;
\* they are kept until the request of the pass is sent.
StartAttempt(t, n, cds, last_reason, last_fail_at) ==
    LET rc == respect_account_cooldown(cds, account_name[t], clock)
    IN  /\ cooldowns' = rc.cds
        /\ attempt' = [attempt EXCEPT ![t] = n]
        /\ IF rc.sleep > 0
           THEN /\ tpc' = [tpc EXCEPT ![t] = "cooldown_sleep"]
                /\ wakeAt' = [wakeAt EXCEPT ![t] = clock + rc.sleep]
                /\ reason' = [reason EXCEPT ![t] = last_reason]
                /\ failAt' = [failAt EXCEPT ![t] = last_fail_at]
                /\ UNCHANGED sent
           ELSE /\ tpc' = [tpc EXCEPT ![t] = "in_flight"]
                /\ wakeAt' = [wakeAt EXCEPT ![t] = None]
                /\ reason' = [reason EXCEPT ![t] = ""]
                /\ failAt' = [failAt EXCEPT ![t] = None]
                /\ sent' = [sent EXCEPT ![t] = @ + 1]

\* fetch_posts / fetch_post_insights: "async with self._semaphore" and, when
\* a permit is free, the first attempt of _request.
start_request(t) ==
    /\ tpc[t] = "new"
    /\ IF ~locked(permits)
       THEN /\ permits' = permits - 1
            /\ StartAttempt(t, 1, cooldowns, "", None)
       ELSE /\ tpc' = [tpc EXCEPT ![t] = "wait_sem"]
            /\ UNCHANGED <<permits, cooldowns, attempt, wakeAt, sent, reason, failAt>>
    /\ UNCHANGED <<clock, limit, fails, rlUntil>>
    /\ UNCHANGED nonClientVars

\* A task waiting in Semaphore.acquire gets a released permit.
acquire_semaphore(t) ==
    /\ tpc[t] = "wait_sem"
    /\ ~locked(permits)
    /\ permits' = permits - 1
    /\ StartAttempt(t, 1, cooldowns, "", None)
    /\ UNCHANGED <<clock, limit, fails, rlUntil>>
    /\ UNCHANGED nonClientVars

\* _respect_account_cooldown returns from its sleep and the request is sent.
wake_from_cooldown(t) ==
    /\ tpc[t] = "cooldown_sleep"
    /\ clock >= wakeAt[t]
    /\ tpc' = [tpc EXCEPT ![t] = "in_flight"]
    /\ wakeAt' = [wakeAt EXCEPT ![t] = None]
    /\ reason' = [reason EXCEPT ![t] = ""]
    /\ failAt' = [failAt EXCEPT ![t] = None]
    /\ sent' = [sent EXCEPT ![t] = @ + 1]
    /\ UNCHANGED <<clock, limit, permits, cooldowns, attempt, fails, rlUntil>>
    /\ UNCHANGED nonClientVars

\* A 2xx response: the cooldown is cleared, the payload returned and the
\* semaphore released.
receive_success(t) ==
    /\ tpc[t] = "in_flight"
    /\ cooldowns' = clear_account_cooldown(cooldowns, account_name[t])
    /\ tpc' = [tpc EXCEPT ![t] = "returned"]
    /\ permits' = permits + 1
    /\ UNCHANGED <<clock, limit, attempt, wakeAt, sent, fails, reason, failAt, rlUntil>>
    /\ UNCHANGED nonClientVars

\* What follows a failed attempt with the resolved wait: the exception is
\* re-raised at the last attempt; otherwise the cooldown is scheduled and the
\* task sleeps (a wait of 0 goes straight to the next pass of the loop).
AfterFailure(t, wait_seconds, why) ==
    LET a == account_name[t]
        n == attempt[t]
    IN  /\ fails' = [fails EXCEPT ![t] = @ + 1]
        /\ IF attempts_exhausted(n)
           THEN /\ tpc' = [tpc EXCEPT ![t] = "raised"]
                /\ permits' = permits + 1
                /\ reason' = [reason EXCEPT ![t] = why]
                /\ failAt' = [failAt EXCEPT ![t] = clock]
                /\ UNCHANGED <<cooldowns, attempt, wakeAt, sent, rlUntil>>
           ELSE LET cds == schedule_account_cooldown(cooldowns, a, wait_seconds, clock)
                IN  /\ rlUntil' = IF why = "threads_profile_rate_limit"
                                  THEN [rlUntil EXCEPT ![a] = Max(@, clock + wait_seconds)]
                                  ELSE rlUntil
                    /\ UNCHANGED permits
                    /\ IF wait_seconds <= 0
                       THEN StartAttempt(t, n + 1, cds, why, clock)
                       ELSE /\ cooldowns' = cds
                            /\ tpc' = [tpc EXCEPT ![t] = "backoff_sleep"]
                            /\ wakeAt' = [wakeAt EXCEPT ![t] = clock + wait_seconds]
                            /\ reason' = [reason EXCEPT ![t] = why]
                            /\ failAt' = [failAt EXCEPT ![t] = clock]
                            /\ UNCHANGED <<attempt, sent>>

\* except httpx.HTTPStatusError
receive_status_error(t, response) ==
    /\ tpc[t] = "in_flight"
    /\ TotalFails < MaxFailures
    /\ LET resolved == resolve_wait_for_status_error(attempt[t], response)
       IN  AfterFailure(t, resolved.wait, resolved.reason)
    /\ UNCHANGED <<clock, limit>>
    /\ UNCHANGED nonClientVars

\* except httpx.HTTPError (network-level error)
receive_network_error(t) ==
    /\ tpc[t] = "in_flight"
    /\ TotalFails < MaxFailures
    /\ AfterFailure(t, compute_default_wait(attempt[t]), "http_error")
    /\ UNCHANGED <<clock, limit>>
    /\ UNCHANGED nonClientVars

\* _sleep_with_logging returns and the loop goes on with the next attempt.
wake_from_backoff(t) ==
    /\ tpc[t] = "backoff_sleep"
    /\ clock >= wakeAt[t]
    /\ StartAttempt(t, attempt[t] + 1, cooldowns, reason[t], failAt[t])
    /\ UNCHANGED <<clock, limit, permits, fails, rlUntil>>
    /\ UNCHANGED nonClientVars

\* Time passes until the next sleep ends; a task whose sleep is over runs
\* before time moves on.  A rate-limit deadline that has passed is forgotten.
advance_clock ==
    LET due == {wakeAt[t] : t \in {u \in Tasks : tpc[u] \in Sleeping}}
        next == CHOOSE w \in due : \A v \in due : w <= v
    IN  /\ due # {}
        /\ \A w \in due : w > clock
        /\ clock' = next
        /\ rlUntil' = [a \in Accounts |-> IF rlUntil[a] <= next THEN 0 ELSE rlUntil[a]]
        /\ UNCHANGED <<limit, permits, cooldowns, tpc, attempt, wakeAt, sent, fails,
                       reason, failAt>>
        /\ UNCHANGED nonClientVars

NextClient ==
    \/ \E t \in Tasks : start_request(t)
    \/ \E t \in Tasks : acquire_semaphore(t)
    \/ \E t \in Tasks : wake_from_cooldown(t)
    \/ \E t \in Tasks : receive_success(t)
    \/ \E t \in Tasks : \E response \in ServerErrors : receive_status_error(t, response)
    \/ \E t \in Tasks : receive_network_error(t)
    \/ \E t \in Tasks : wake_from_backoff(t)
    \/ advance_clock

SpecClient == InitClient /\ [][NextClient]_vars

(***************************************************************************)
(* SpecPosts: collect_posts.  SpecInsights: collect_insights and the retry  *)
(* wave, called with the posts of a collect_posts that returned.           *)
(***************************************************************************)

Posts == {"p1", "p2", "p3"}

\* "account_name" of the post data collect_posts builds.
post_account == [p \in Posts |-> IF p = "p3" THEN "B" ELSE "A"]

\* Pagination cursors (opaque tokens).
Cursors == {1, 2}

\* The time of the run (dt.datetime.now in collect_insights).
CollectNow == MetricsTtlTicks + 1

\* The exceptions fetch_posts and fetch_post_insights end with: _request
\* re-raises the httpx exception of its last attempt, a status error or a
\* network-level error.
FetchErrors == {"HTTPStatusError", "RequestError"}

Pending == [kind |-> "pending", posts |-> {}, next_cursor |-> None]

\* collect_posts: except (httpx.HTTPStatusError, ThreadsAPIError)
caught_by_collect_posts(kind) == kind \in {"HTTPStatusError", "ThreadsAPIError"}

should_store_cursor_always(next_cursor) == TRUE

\* collect_posts: "if result.next_cursor:"
should_store_cursor(next_cursor) == next_cursor # None

\* The posts collect_posts returns: the posts of every account whose
\* fetch_posts returned.
flat == UNION {fetch_result[a].posts : a \in Accounts}

InsightsNotCalled ==
    /\ post_ts_before = post_ts
    /\ first_fetch = [p \in Posts |-> "none"]
    /\ retry_calls = [p \in Posts |-> 0]
    /\ retry_state = [p \in Posts |-> "none"]
    /\ retry_pauses = [p \in Posts |-> 0]
    /\ pause = [p \in Posts |-> None]
    /\ insights_phase = "not_called"
    /\ insights_map = {}
    /\ ts_written = {}

InitPosts ==
    /\ stored_cursor \in [Accounts -> {None, 1}]
    /\ cursor_before = stored_cursor
    /\ cursor_sets = [a \in Accounts |-> 0]
    /\ fetch_result = [a \in Accounts |-> Pending]
    /\ posts_result = "running"
    /\ post_ts = [p \in Posts |-> None]
    /\ InsightsNotCalled
    /\ LockIdle
    /\ WaitIdle
    /\ ClientIdle
    /\ StoreIdle
    /\ SheetIdle
    /\ AggIdle
    /\ DeliveryIdle
    /\ CancelIdle
    /\ PagingIdle
    /\ RequestIdle

\* collect_posts has returned: every account's fetch_posts returned some of
\* its posts and cursor 1, which was stored.
InitInsights ==
    /\ stored_cursor = [a \in Accounts |-> 1]
    /\ cursor_before \in [Accounts -> {None, 1}]
    /\ cursor_sets = [a \in Accounts |-> 1]
    /\ \E ps \in SUBSET Posts :
          fetch_result = [a \in Accounts |->
              [kind |-> "ok", posts |-> {p \in ps : post_account[p] = a},
               next_cursor |-> 1]]
    /\ posts_result = "returned"
    /\ post_ts \in [Posts -> {None, CollectNow - MetricsTtlTicks,
                               CollectNow - MetricsTtlTicks + 1}]
    /\ InsightsNotCalled
    /\ LockIdle
    /\ WaitIdle
    /\ ClientIdle
    /\ StoreIdle
    /\ SheetIdle
    /\ AggIdle
    /\ DeliveryIdle
    /\ CancelIdle
    /\ PagingIdle
    /\ RequestIdle

\* _collect_for_account: fetch_posts returned its result.  fetch_posts starts
\* from the stored cursor, so its next_cursor is None only when there was no
\* stored cursor, no page cursor and no post.
fetch_posts_returns(a, ps, nc) ==
    /\ fetch_result[a].kind = "pending"
    /\ ps \subseteq {p \in Posts : post_account[p] = a}
    /\ nc = None => (stored_cursor[a] = None /\ ps = {})
    /\ fetch_result' = [fetch_result EXCEPT ![a] =
                           [kind |-> "ok", posts |-> ps, next_cursor |-> nc]]
    /\ IF should_store_cursor(nc)
       THEN /\ stored_cursor' = [stored_cursor EXCEPT ![a] = nc]
            /\ cursor_sets' = [cursor_sets EXCEPT ![a] = @ + 1]
       ELSE UNCHANGED <<stored_cursor, cursor_sets>>
    /\ UNCHANGED <<cursor_before, posts_result, post_ts, post_ts_before, first_fetch,
                   retry_calls, retry_state, retry_pauses, pause, insights_phase,
                   insights_map, ts_written>>
    /\ UNCHANGED nonCollectVars

\* _collect_for_account: fetch_posts raised.  A caught exception gives an
\* empty list; any other one leaves the task and gather re-raises it in
\* collect_posts (the other tasks keep running).
fetch_posts_raises(a, kind) ==
    /\ fetch_result[a].kind = "pending"
    /\ fetch_result' = [fetch_result EXCEPT ![a] =
                           [kind |-> kind, posts |-> {}, next_cursor |-> None]]
    /\ posts_result' = IF caught_by_collect_posts(kind) THEN posts_result ELSE "raised"
    /\ UNCHANGED <<stored_cursor, cursor_before, cursor_sets, post_ts, post_ts_before,
                   first_fetch, retry_calls, retry_state, retry_pauses, pause,
                   insights_phase, insights_map, ts_written>>
    /\ UNCHANGED nonCollectVars

\* results = await asyncio.gather(*tasks); return flat
collect_posts_returns ==
    /\ posts_result = "running"
    /\ \A a \in Accounts : fetch_result[a].kind # "pending"
    /\ posts_result' = "returned"
    /\ UNCHANGED <<stored_cursor, cursor_before, cursor_sets, fetch_result, post_ts,
                   post_ts_before, first_fetch, retry_calls, retry_state,
                   retry_pauses, pause, insights_phase, insights_map, ts_written>>
    /\ UNCHANGED nonCollectVars

\* RetrySettings(): the defaults run_service runs with.
RetrySettings == [max_attempts |-> 3, pause_range |-> <<20, 30>>]

\* RetrySettings.normalized_pause_range
normalized_pause_range(settings) ==
    IF settings.pause_range[2] < settings.pause_range[1]
    THEN <<settings.pause_range[2], settings.pause_range[1]>>
    ELSE settings.pause_range

\* random.uniform(pause_start, pause_end): the ends of the range and its middle.
uniform(range) == {range[1], (range[1] + range[2]) \div 2, range[2]}

retry_limit_doubled(settings) == 2 * settings.max_attempts

retry_limit_one_more(settings) == settings.max_attempts + 1

\* _retry_single: max_attempts = max(1, retry_settings.max_attempts)
retry_limit(settings) == Max(1, settings.max_attempts)

should_refresh_post_metrics_gt(timestamps, post_id, ttl, t) ==
    \/ timestamps[post_id] = None
    \/ t - timestamps[post_id] > ttl

\* StateStore.should_refresh_post_metrics
should_refresh_post_metrics(timestamps, post_id, ttl, t) ==
    \/ timestamps[post_id] = None
    \/ t - timestamps[post_id] >= ttl

caught_by_fetch_status_only(kind) == kind = "HTTPStatusError"

\* collect_insights._fetch and _retry_single: except Exception
caught_by_fetch(kind) == kind \in FetchErrors

updates_of_first_wave_only(first_ok, retried_ok) == first_ok

\* collect_insights: the keys of "updates" after updates.update(extra_updates)
updates_of(first_ok, retried_ok) == first_ok \cup retried_ok

\* collect_insights is called with the posts collect_posts returned: one _fetch
\* task per post that needs a refresh; without tasks it returns at once.
collect_insights_called ==
    /\ posts_result = "returned"
    /\ insights_phase = "not_called"
    /\ post_ts_before' = post_ts
    /\ first_fetch' = [p \in Posts |->
            IF p \notin flat THEN "none"
            ELSE IF should_refresh_post_metrics(post_ts, p, MetricsTtlTicks, CollectNow)
                 THEN "pending"
                 ELSE "skipped"]
    /\ insights_phase' = IF \E p \in Posts : first_fetch'[p] = "pending"
                         THEN "first_wave"
                         ELSE "returned"
    /\ UNCHANGED <<stored_cursor, cursor_before, cursor_sets, fetch_result,
                   posts_result, post_ts, retry_calls, retry_state, retry_pauses, pause,
                   insights_map, ts_written>>
    /\ UNCHANGED nonCollectVars

\* _fetch: fetch_post_insights returned.
first_fetch_returns(p) ==
    /\ insights_phase = "first_wave"
    /\ first_fetch[p] = "pending"
    /\ first_fetch' = [first_fetch EXCEPT ![p] = "ok"]
    /\ UNCHANGED <<stored_cursor, cursor_before, cursor_sets, fetch_result,
                   posts_result, post_ts, post_ts_before, retry_calls, retry_state,
                   retry_pauses, pause, insights_phase, insights_map, ts_written>>
    /\ UNCHANGED nonCollectVars

\* _fetch: fetch_post_insights raised; the post goes to failed_requests.
first_fetch_raises(p, kind) ==
    /\ insights_phase = "first_wave"
    /\ first_fetch[p] = "pending"
    /\ IF caught_by_fetch(kind)
       THEN /\ first_fetch' = [first_fetch EXCEPT ![p] = "failed"]
            /\ UNCHANGED insights_phase
       ELSE /\ first_fetch' = [first_fetch EXCEPT ![p] = "raised"]
            /\ insights_phase' = "raised"
    /\ UNCHANGED <<stored_cursor, cursor_before, cursor_sets, fetch_result,
                   posts_result, post_ts, post_ts_before, retry_calls, retry_state,
                   retry_pauses, pause, insights_map, ts_written>>
    /\ UNCHANGED nonCollectVars

\* The end of collect_insights: update_post_metrics_many(updates) when there
\* are updates, and the insight map is returned.
Finish(first_ok, retried_ok) ==
    LET updates == updates_of(first_ok, retried_ok)
    IN  /\ insights_map' = first_ok \cup retried_ok
        /\ ts_written' = updates
        /\ post_ts' = [p \in Posts |-> IF p \in updates THEN CollectNow ELSE post_ts[p]]
        /\ insights_phase' = "returned"

\* results = await asyncio.gather(*tasks): the first wave is over; the posts
\* in failed_requests get a _retry_single task each.
first_wave_gathered ==
    /\ insights_phase = "first_wave"
    /\ \A p \in Posts : first_fetch[p] # "pending"
    /\ LET first_ok == {p \in Posts : first_fetch[p] = "ok"}
           failed == {p \in Posts : first_fetch[p] = "failed"}
       IN  IF failed # {}
           THEN /\ insights_phase' = "retry_wave"
                /\ insights_map' = first_ok
                /\ retry_state' = [p \in Posts |->
                                      IF p \in failed THEN "calling" ELSE "none"]
                /\ retry_calls' = [p \in Posts |-> IF p \in failed THEN 1 ELSE 0]
                /\ UNCHANGED <<post_ts, ts_written>>
           ELSE /\ Finish(first_ok, {})
                /\ UNCHANGED <<retry_state, retry_calls>>
    /\ UNCHANGED <<stored_cursor, cursor_before, cursor_sets, fetch_result,
                   posts_result, post_ts_before, first_fetch, retry_pauses, pause>>
    /\ UNCHANGED nonCollectVars

\* _retry_single: fetch_post_insights returned; the task returns its result.
retry_returns(p) ==
    /\ insights_phase = "retry_wave"
    /\ retry_state[p] = "calling"
    /\ retry_state' = [retry_state EXCEPT ![p] = "got"]
    /\ UNCHANGED <<stored_cursor, cursor_before, cursor_sets, fetch_result,
                   posts_result, post_ts, post_ts_before, first_fetch, retry_calls,
                   retry_pauses, pause, insights_phase, insights_map, ts_written>>
    /\ UNCHANGED nonCollectVars

\* _retry_single: fetch_post_insights raised; after the last attempt the task
\* returns None, otherwise it draws a pause and sleeps.
retry_raises(p, kind, drawn) ==
    /\ insights_phase = "retry_wave"
    /\ retry_state[p] = "calling"
    /\ drawn \in uniform(normalized_pause_range(RetrySettings))
    /\ IF ~caught_by_fetch(kind)
       THEN /\ retry_state' = [retry_state EXCEPT ![p] = "raised"]
            /\ insights_phase' = "raised"
            /\ UNCHANGED <<retry_pauses, pause>>
       ELSE IF retry_calls[p] >= retry_limit(RetrySettings)
       THEN /\ retry_state' = [retry_state EXCEPT ![p] = "gave_up"]
            /\ UNCHANGED <<retry_pauses, pause, insights_phase>>
       ELSE /\ retry_state' = [retry_state EXCEPT ![p] = "pausing"]
            /\ retry_pauses' = [retry_pauses EXCEPT ![p] = @ + 1]
            /\ pause' = [pause EXCEPT ![p] = drawn]
            /\ UNCHANGED insights_phase
    /\ UNCHANGED <<stored_cursor, cursor_before, cursor_sets, fetch_result,
                   posts_result, post_ts, post_ts_before, first_fetch, retry_calls,
                   insights_map, ts_written>>
    /\ UNCHANGED nonCollectVars

\* _retry_single: the pause is over and the next attempt calls
\* fetch_post_insights.
retry_pause_over(p) ==
    /\ insights_phase = "retry_wave"
    /\ retry_state[p] = "pausing"
    /\ retry_state' = [retry_state EXCEPT ![p] = "calling"]
    /\ retry_calls' = [retry_calls EXCEPT ![p] = @ + 1]
    /\ pause' = [pause EXCEPT ![p] = None]
    /\ UNCHANGED <<stored_cursor, cursor_before, cursor_sets, fetch_result,
                   posts_result, post_ts, post_ts_before, first_fetch, retry_pauses,
                   insights_phase, insights_map, ts_written>>
    /\ UNCHANGED nonCollectVars

\* retry_failed_insights returns and collect_insights finishes.
retry_wave_gathered ==
    /\ insights_phase = "retry_wave"
    /\ \A p \in Posts : retry_state[p] \in {"none", "got", "gave_up"}
    /\ Finish({p \in Posts : first_fetch[p] = "ok"},
              {p \in Posts : retry_state[p] = "got"})
    /\ UNCHANGED <<stored_cursor, cursor_before, cursor_sets, fetch_result,
                   posts_result, post_ts_before, first_fetch, retry_calls,
                   retry_state, retry_pauses, pause>>
    /\ UNCHANGED nonCollectVars

NextPosts ==
    \/ \E a \in Accounts : \E ps \in SUBSET Posts : \E nc \in Cursors \cup {None} :
          fetch_posts_returns(a, ps, nc)
    \/ \E a \in Accounts : \E kind \in FetchErrors : fetch_posts_raises(a, kind)
    \/ collect_posts_returns

SpecPosts == InitPosts /\ [][NextPosts]_vars

NextInsights ==
    \/ collect_insights_called
    \/ \E p \in Posts : first_fetch_returns(p)
    \/ \E p \in Posts : \E kind \in FetchErrors : first_fetch_raises(p, kind)
    \/ first_wave_gathered
    \/ \E p \in Posts : retry_returns(p)
    \/ \E p \in Posts : \E kind \in FetchErrors :
          \E drawn \in uniform(normalized_pause_range(RetrySettings)) :
             retry_raises(p, kind, drawn)
    \/ \E p \in Posts : retry_pause_over(p)
    \/ retry_wave_gathered

SpecInsights == InitInsights /\ [][NextInsights]_vars

(***************************************************************************)
(* StateStore on its file (state_store.py): the JSON round trip of         *)
(* AppState, the mutators and should_refresh_post_metrics.                 *)
(***************************************************************************)

\* The posts whose timestamps the store is asked about.
StorePosts == {"p1", "p2"}

\* A JSON string; n stands for its text (a cursor, or isoformat() of the
\* moment n).
JStr(n) == [tag |-> "str", n |-> n, kids |-> <<>>]

\* AppState(): the dataclass defaults, with the two dicts spelled out per key
\* (None: the key is absent).
EmptyAppState ==
    [cursors |-> [a \in Accounts |-> None],
     last_metrics_write |-> None,
     post_metrics_updated_at |-> [p \in StorePosts |-> None],
     run_started_at |-> None]

\* The items of a Python dict of strings, as JSON members.
RECURSIVE dict_items(_, _)
dict_items(map, keys) ==
    IF keys = {} THEN <<>>
    ELSE LET key == CHOOSE x \in keys : TRUE
         IN  (IF map[key] = None THEN <<>>
              ELSE <<[k |-> key, v |-> JStr(map[key])]>>)
             \o dict_items(map, keys \ {key})

\* json.dumps of an Optional[str].
optional_str(value) == IF value = None THEN JNull ELSE JStr(value)

to_dict_three_keys(state) ==
    JDict(<<[k |-> "cursors",
             v |-> JDict(dict_items(state.cursors, DOMAIN state.cursors))],
            [k |-> "last_metrics_write",
             v |-> optional_str(state.last_metrics_write)],
            [k |-> "post_metrics_updated_at",
             v |-> JDict(dict_items(state.post_metrics_updated_at,
                                    DOMAIN state.post_metrics_updated_at))]>>)

\* AppState.to_dict, with the run_started_at key of section 6 of the
\* specification.
to_dict(state) ==
    JDict(<<[k |-> "cursors",
             v |-> JDict(dict_items(state.cursors, DOMAIN state.cursors))],
            [k |-> "last_metrics_write",
             v |-> optional_str(state.last_metrics_write)],
            [k |-> "post_metrics_updated_at",
             v |-> JDict(dict_items(state.post_metrics_updated_at,
                                    DOMAIN state.post_metrics_updated_at))],
            [k |-> "run_started_at",
             v |-> optional_str(state.run_started_at)]>>)

\* data.get(key) on a JSON object.
json_get(data, key) ==
    IF \E i \in DOMAIN data.kids : data.kids[i].k = key
    THEN data.kids[CHOOSE i \in DOMAIN data.kids : data.kids[i].k = key].v
    ELSE JNull

\* Python truthiness of a decoded JSON value.
truthy(value) ==
    CASE value.tag = "null" -> FALSE
      [] value.tag \in {"dict", "list"} -> value.kids # <<>>
      [] value.tag = "num" -> value.n # 0
      [] OTHER -> TRUE

\* The str held by a decoded JSON value (None for null).
str_of(value) == IF value.tag = "str" THEN value.n ELSE None

\* dict(value) of a JSON object, per key.
dict_of(value, keys) == [key \in keys |-> str_of(json_get(value, key))]

\* AppState.from_dict.  data.get raises AttributeError when data is not an
\* object; dict(x) raises TypeError or ValueError when a truthy x is not a
\* mapping.
from_dict(data) ==
    IF data.tag # "dict" THEN [raised |-> TRUE, state |-> EmptyAppState]
    ELSE LET got_cursors == json_get(data, "cursors")
             cursors == IF truthy(got_cursors) THEN got_cursors ELSE JDict(<<>>)
             got_posts == json_get(data, "post_metrics_updated_at")
             post_metrics_updated_at ==
                 IF truthy(got_posts) THEN got_posts ELSE JDict(<<>>)
         IN  IF cursors.tag # "dict" \/ post_metrics_updated_at.tag # "dict"
             THEN [raised |-> TRUE, state |-> EmptyAppState]
             ELSE [raised |-> FALSE,
                   state |->
                     [cursors |-> dict_of(cursors, Accounts),
                      last_metrics_write |->
                          str_of(json_get(data, "last_metrics_write")),
                      post_metrics_updated_at |->
                          dict_of(post_metrics_updated_at, StorePosts),
                      run_started_at |->
                          str_of(json_get(data, "run_started_at"))]]

\* The state file: absent, present but unreadable (read_text raises OSError
\* or UnicodeDecodeError), text that json.loads rejects, or JSON text (doc is
\* what json.loads returns).
FileOf(kind, doc) == [kind |-> kind, doc |-> doc]

\* StateStore._load
StateStore_load(f) ==
    CASE f.kind = "missing" -> [raised |-> FALSE, state |-> EmptyAppState]
      [] f.kind = "unreadable" -> [raised |-> TRUE, state |-> EmptyAppState]
      [] f.kind = "invalid_json" -> [raised |-> FALSE, state |-> EmptyAppState]
      [] OTHER -> from_dict(f.doc)

\* StateStore._save: json.dumps(self._state.to_dict()) replaces the file.
StateStore_save(state) == FileOf("json", to_dict(state))

\* A state file left by an earlier run.
EarlierState ==
    [cursors |-> [a \in Accounts |-> IF a = "A" THEN 1 ELSE None],
     last_metrics_write |-> 0,
     post_metrics_updated_at |-> [p \in StorePosts |-> IF p = "p1" THEN 0 ELSE None],
     run_started_at |-> None]

\* The files a StateStore may be created on.
InitialFiles ==
    {FileOf("missing", JNull),
     FileOf("unreadable", JNull),
     FileOf("invalid_json", JNull),
     FileOf("json", JList(<<>>)),
     FileOf("json", JNum(7)),
     FileOf("json", JDict(<<[k |-> "cursors", v |-> JNum(5)]>>)),
     FileOf("json", JDict(<<>>)),
     FileOf("json", to_dict(EarlierState))}

\* asked holds the return value of the call made last; the calls that return
\* None leave NotAsked.
NotAsked == [made |-> FALSE, post_id |-> "p1", ttl |-> 0, now |-> 0, answer |-> FALSE]

InitStore ==
    /\ disk \in InitialFiles
    /\ store = [status |-> "none", state |-> EmptyAppState]
    /\ stime = 0
    /\ asked = NotAsked
    /\ LockIdle
    /\ WaitIdle
    /\ ClientIdle
    /\ CollectIdle
    /\ SheetIdle
    /\ AggIdle
    /\ DeliveryIdle
    /\ CancelIdle
    /\ PagingIdle
    /\ RequestIdle

\* dt.datetime.now(TIMEZONE) moves on.
store_tick ==
    /\ stime < MaxTime
    /\ stime' = stime + 1
    /\ asked' = NotAsked
    /\ UNCHANGED <<disk, store>>
    /\ UNCHANGED nonStoreVars

\* StateStore.__init__
StateStore_init ==
    /\ store.status = "none"
    /\ LET loaded == StateStore_load(disk)
       IN  store' = [status |-> IF loaded.raised THEN "raised" ELSE "ready",
                     state |-> loaded.state]
    /\ asked' = NotAsked
    /\ UNCHANGED <<disk, stime>>
    /\ UNCHANGED nonStoreVars

\* A mutator leaves new_state in memory and saves it.
Mutate(new_state) ==
    /\ store.status = "ready"
    /\ store' = [store EXCEPT !.state = new_state]
    /\ disk' = StateStore_save(new_state)
    /\ asked' = NotAsked
    /\ UNCHANGED stime
    /\ UNCHANGED nonStoreVars

set_account_cursor(a, cursor) ==
    /\ cursor # None
    /\ Mutate([store.state EXCEPT !.cursors[a] = cursor])

update_last_metrics_write ==
    /\ store.status = "ready"
    /\ Mutate([store.state EXCEPT !.last_metrics_write = stime])

update_post_metrics_timestamp(p, moment) ==
    /\ moment # None
    /\ Mutate([store.state EXCEPT !.post_metrics_updated_at[p] = moment])

\* update_post_metrics_many saves only when it was given something.
update_post_metrics_many(ps, moment) ==
    IF ps = {}
    THEN /\ store.status = "ready"
         /\ asked' = NotAsked
         /\ UNCHANGED <<disk, store, stime>>
         /\ UNCHANGED nonStoreVars
    ELSE Mutate([store.state EXCEPT !.post_metrics_updated_at =
                    [p \in StorePosts |-> IF p \in ps THEN moment ELSE @[p]]])

\* StateStore.try_acquire_run_lock(max_age): a refused call changes nothing.
store_try_acquire_run_lock ==
    /\ lock_is_free(store.state, RunTimeoutTicks, stime)
    /\ Mutate(set_run_lock(store.state, stime))

store_try_acquire_refused ==
    /\ store.status = "ready"
    /\ ~lock_is_free(store.state, RunTimeoutTicks, stime)
    /\ asked' = NotAsked
    /\ UNCHANGED <<disk, store, stime>>
    /\ UNCHANGED nonStoreVars

\* StateStore.release_run_lock
store_release_run_lock ==
    /\ store.status = "ready"
    /\ Mutate(clear_run_lock(store.state))

\* StateStore.should_refresh_post_metrics(post_id, ttl_minutes): now_dt is
\* dt.datetime.now(TIMEZONE).
ask_should_refresh_post_metrics(p, ttl) ==
    /\ store.status = "ready"
    /\ asked' = [made |-> TRUE, post_id |-> p, ttl |-> ttl, now |-> stime,
                 answer |-> should_refresh_post_metrics(
                                store.state.post_metrics_updated_at, p, ttl, stime)]
    /\ UNCHANGED <<disk, store, stime>>
    /\ UNCHANGED nonStoreVars

NextStore ==
    \/ store_tick
    \/ StateStore_init
    \/ \E a \in Accounts : \E cursor \in Cursors : set_account_cursor(a, cursor)
    \/ update_last_metrics_write
    \/ \E p \in StorePosts : update_post_metrics_timestamp(p, stime)
    \/ \E ps \in SUBSET StorePosts : update_post_metrics_many(ps, stime)
    \/ store_try_acquire_run_lock
    \/ store_try_acquire_refused
    \/ store_release_run_lock
    \/ \E p \in StorePosts : \E ttl \in 1..MetricsTtlTicks :
          ask_should_refresh_post_metrics(p, ttl)

SpecStore == InitStore /\ [][NextStore]_vars

(***************************************************************************)
(* GoogleSheetsClient.write_posts_metrics (google_sheets.py)               *)
(***************************************************************************)

\* A key cell: the text id, held as a string ("str") or as the number that
\* get_all_records makes of a numeric cell ("int").
KeyCell(id, form) == [id |-> id, form |-> form]

PublishTimes == {1, 2, 3}

\* Data rows the worksheet may hold before a call.  publish None is a
\* publish time that pd.to_datetime cannot parse (an empty cell included).
ExistingRows ==
    {[account_name |-> k[1], post_id |-> KeyCell(k[2], k[3]), publish |-> t,
      likes |-> 1, updated_at |-> 0] :
        k \in {<<"A", "123", "int">>, <<"A", "456", "int">>, <<"A", "789", "str">>,
               <<"B", "123", "str">>},
        t \in {None, 1, 2}}

\* Rows aggregate_posts may pass; updated_at is set by write_posts_metrics.
BatchRows ==
    {[account_name |-> k[1], post_id |-> KeyCell(k[2], "str"), publish |-> t,
      likes |-> 6, updated_at |-> None] :
        k \in {<<"A", "123">>, <<"A", "456">>, <<"A", "789">>},
        t \in {None, 2, 3}}

UpTo2(rows) ==
    {<<>>} \cup {<<r>> : r \in rows} \cup {<<r, q>> : r \in rows, q \in rows}

\* GoogleSheetsClient._normalize_key: str(value).strip()
normalize_key(cell) == KeyCell(cell.id, "str")

normalize_keys(rows) ==
    [i \in DOMAIN rows |-> [rows[i] EXCEPT !.post_id = normalize_key(@)]]

\* The value of the key columns ("account_name", "post_id") of a row.
key_of(row) == <<row.account_name, row.post_id>>

keys_of(rows) == [i \in DOMAIN rows |-> key_of(rows[i])]

RECURSIVE take(_, _, _)
take(rows, keep, i) ==
    IF i > Len(rows) THEN <<>>
    ELSE (IF i \in keep THEN <<rows[i]>> ELSE <<>>) \o take(rows, keep, i + 1)

drop_duplicates_never(rows) == rows

\* df.drop_duplicates(subset=key_columns, keep="last")
drop_duplicates(rows) ==
    take(rows, {i \in DOMAIN rows :
                   \A j \in DOMAIN rows : j > i => key_of(rows[j]) # key_of(rows[i])}, 1)

\* GoogleSheetsClient._deduplicate
deduplicate(df) == drop_duplicates(normalize_keys(df))

\* Lexicographic rank of a normalized key, for the sorted union of two
\* indexes.
key_rank(row) ==
    (IF row.account_name = "A" THEN 0 ELSE 3)
        + (CASE row.post_id.id = "123" -> 1 [] row.post_id.id = "456" -> 2
             [] OTHER -> 3)

RECURSIVE sort_index(_)
sort_index(rows) ==
    IF rows = <<>> THEN <<>>
    ELSE LET first == CHOOSE i \in DOMAIN rows :
                          \A j \in DOMAIN rows : key_rank(rows[i]) <= key_rank(rows[j])
         IN  <<rows[first]>> \o sort_index(take(rows, DOMAIN rows \ {first}, 1))

\* The orders in which an outer join of two different indexes may come out
\* of pandas: the sorted union, or the left index followed by the keys only
\* the right one has.
IndexOrders == {"sorted", "appended"}

merge_existing_new_only(existing_df, new_df, index_order) ==
    drop_duplicates(normalize_keys(new_df))

\* GoogleSheetsClient._merge_existing: combine_first on the key index, then
\* update with the new frame (every cell of a batch row is non-NA in this
\* model, so a row whose key is in the batch takes the batch row's cells).
merge_existing(existing_df, new_df, index_order) ==
    LET old == drop_duplicates(normalize_keys(existing_df))
        new == drop_duplicates(normalize_keys(new_df))
        in_new(row) == \E j \in DOMAIN new : key_of(new[j]) = key_of(row)
        from_new(row) == new[CHOOSE j \in DOMAIN new : key_of(new[j]) = key_of(row)]
        kept == [i \in DOMAIN old |-> IF in_new(old[i]) THEN from_new(old[i]) ELSE old[i]]
        added == SelectSeq(new, LAMBDA row :
                     \A i \in DOMAIN old : key_of(old[i]) # key_of(row))
    IN  IF keys_of(old) = keys_of(new) THEN kept
        ELSE IF index_order = "sorted" THEN sort_index(kept \o added)
        ELSE kept \o added

sort_key_na_last(row) == IF row.publish = None THEN 9 ELSE row.publish

\* pd.to_datetime(..., errors="coerce") with na_position="first"
sort_key(row) == IF row.publish = None THEN 0 ELSE row.publish

RECURSIVE sort_values(_, _)
sort_values(df, sort_keys) ==
    IF sort_keys = {} THEN <<>>
    ELSE LET least == CHOOSE k \in sort_keys : \A other \in sort_keys : k <= other
         IN  SelectSeq(df, LAMBDA row : sort_key(row) = least)
                 \o sort_values(df, sort_keys \ {least})

sort_by_publish_time_skipped(df) == df

\* GoogleSheetsClient._sort_by_publish_time: a stable (mergesort) sort.
sort_by_publish_time(df) == sort_values(df, {sort_key(df[i]) : i \in DOMAIN df})

stamp_never(rows, t) == rows

\* df[timestamp_column] = now
stamp(rows, t) == [i \in DOMAIN rows |-> [rows[i] EXCEPT !.updated_at = t]]

rows_to_format_changed(final_values, before, new_df) ==
    {i + 1 : i \in {n \in DOMAIN final_values :
                       \E j \in DOMAIN new_df : key_of(new_df[j]) = key_of(final_values[n])}}

\* _apply_formatting(sheet, start_row=2, rows_count=final_values.index.size):
\* the grid rows start_row .. start_row + rows_count - 1.
rows_to_format(final_values, before, new_df) ==
    {i + 1 : i \in DOMAIN final_values}

\* Where a call may fail: not at all, in _get_worksheet, in get_all_records,
\* in batch_update, or inside _apply_formatting after its requests were
\* made (caught there).
Failures == {"none", "get_worksheet", "read", "write", "format"}

InitSheet ==
    /\ sheet \in UpTo2(ExistingRows)
    /\ sheet_before = sheet
    /\ batch \in UpTo2(BatchRows)
    /\ sheet_phase = "idle"
    /\ merged = <<>>
    /\ written = 0
    /\ formatted = {}
    /\ lmw_updated = FALSE
    /\ LockIdle
    /\ WaitIdle
    /\ ClientIdle
    /\ CollectIdle
    /\ StoreIdle
    /\ AggIdle
    /\ DeliveryIdle
    /\ CancelIdle
    /\ PagingIdle
    /\ RequestIdle

\* The call raised: nothing was written and update_last_metrics_write was not
\* reached.
Raised ==
    /\ sheet_phase' = "raised"
    /\ sheet_before' = sheet
    /\ merged' = <<>>
    /\ written' = 0
    /\ formatted' = {}
    /\ lmw_updated' = FALSE
    /\ UNCHANGED <<sheet, batch>>

\* write_posts_metrics(rows): the first call, and a second call with the same
\* rows.
sheets_write_posts_metrics(failure, index_order) ==
    /\ sheet_phase \in {"idle", "written"}
    /\ LET now_stamp == IF sheet_phase = "idle" THEN 1 ELSE 2
           done == IF sheet_phase = "idle" THEN "written" ELSE "rewritten"
           df == deduplicate(stamp(batch, now_stamp))
           merged_df == IF sheet # <<>>
                        THEN merge_existing(sheet, df, index_order)
                        ELSE df
           final_values == sort_by_publish_time(merged_df)
       IN  IF failure = "get_worksheet" THEN Raised
           ELSE IF batch = <<>>
           THEN /\ sheet_phase' = done
                /\ sheet_before' = sheet
                /\ merged' = <<>>
                /\ written' = 0
                /\ formatted' = {}
                /\ lmw_updated' = TRUE
                /\ UNCHANGED <<sheet, batch>>
           ELSE IF failure \in {"read", "write"} THEN Raised
           ELSE /\ sheet_phase' = done
                /\ sheet_before' = sheet
                /\ merged' = merged_df
                /\ sheet' = final_values
                /\ written' = 1 + Max(Len(sheet), Len(final_values))
                /\ formatted' = rows_to_format(final_values, sheet, df)
                /\ lmw_updated' = TRUE
                /\ UNCHANGED batch
    /\ UNCHANGED nonSheetVars

NextSheet ==
    \E failure \in Failures : \E index_order \in IndexOrders :
        sheets_write_posts_metrics(failure, index_order)

SpecSheet == InitSheet /\ [][NextSheet]_vars

(***************************************************************************)
(* aggregate_posts (aggregation.py)                                        *)
(***************************************************************************)

AggIds == {"1", "2"}

InsightFields == {"views", "likes", "replies", "reposts", "quotes", "shares"}

\* An insight dict: field -> value, None for a field that is absent.
FullInsight ==
    [f \in InsightFields |->
        CASE f = "views" -> 120 [] f = "likes" -> 15 [] f = "replies" -> 4
          [] f = "reposts" -> 6 [] f = "quotes" -> 2 [] OTHER -> 3]

InsightDicts ==
    {FullInsight,
     [f \in InsightFields |-> None],
     [f \in InsightFields |-> IF f \in {"views", "likes"} THEN FullInsight[f] ELSE None],
     [f \in InsightFields |-> IF f \in {"replies", "shares"} THEN FullInsight[f] ELSE None],
     [f \in InsightFields |-> 0]}

\* The entry of the insight map for one post id: has is "post_id in insights".
InsightEntries ==
    {[has |-> FALSE, values |-> [f \in InsightFields |-> None]]}
        \cup {[has |-> TRUE, values |-> d] : d \in InsightDicts}

\* A post dict as collect_posts returns it; id "" stands for a missing or
\* empty id, None for a counter that is missing.
PostDicts ==
    {[id |-> i, account_name |-> "A", like_count |-> c[1], reply_count |-> c[2],
      repost_count |-> c[3]] :
        i \in AggIds \cup {""},
        c \in {<<10, 2, 3>>, <<None, None, None>>, <<5, None, 0>>}}

\* post.get(name), None read as 0.
native_counter(post, name) == IF post[name] = None THEN 0 ELSE post[name]

prefer_native(insight, has_insight, field, native) == native

\* insight.get(field, native) if has_insight else native
prefer_insight(insight, has_insight, field, native) ==
    IF has_insight
    THEN (IF insight[field] = None THEN native ELSE insight[field])
    ELSE native

\* insight.get(field) if has_insight else None
insight_only(insight, has_insight, field) ==
    IF has_insight THEN insight[field] ELSE None

\* The row aggregate_posts appends for one post.
aggregated_row(post, insights) ==
    LET post_id == post.id
        has_insight == insights[post_id].has
        insight == insights[post_id].values
    IN  [account_name |-> post.account_name,
         post_id |-> post_id,
         views |-> insight_only(insight, has_insight, "views"),
         likes |-> prefer_insight(insight, has_insight, "likes",
                                  native_counter(post, "like_count")),
         replies |-> prefer_insight(insight, has_insight, "replies",
                                    native_counter(post, "reply_count")),
         reposts |-> prefer_insight(insight, has_insight, "reposts",
                                    native_counter(post, "repost_count")),
         quotes |-> insight_only(insight, has_insight, "quotes"),
         shares |-> insight_only(insight, has_insight, "shares")]

\* aggregate_posts: posts without id are skipped, the others give one row
\* each, in order.
RECURSIVE aggregate_posts(_, _)
aggregate_posts(posts, insights) ==
    IF posts = <<>> THEN <<>>
    ELSE (IF Head(posts).id = "" THEN <<>>
          ELSE <<aggregated_row(Head(posts), insights)>>)
         \o aggregate_posts(Tail(posts), insights)

InitAggregate ==
    /\ agg_posts \in {<<>>} \cup {<<p>> : p \in PostDicts}
                     \cup {<<p, q>> : p \in PostDicts, q \in PostDicts}
    /\ agg_insights \in [AggIds -> InsightEntries]
    /\ agg_rows = <<>>
    /\ agg_called = FALSE
    /\ LockIdle
    /\ WaitIdle
    /\ ClientIdle
    /\ CollectIdle
    /\ StoreIdle
    /\ SheetIdle
    /\ DeliveryIdle
    /\ CancelIdle
    /\ PagingIdle
    /\ RequestIdle

\* metrics = aggregate_posts(posts, insights)
call_aggregate_posts ==
    /\ ~agg_called
    /\ agg_rows' = aggregate_posts(agg_posts, agg_insights)
    /\ agg_called' = TRUE
    /\ UNCHANGED <<agg_posts, agg_insights>>
    /\ UNCHANGED nonAggVars

NextAggregate == call_aggregate_posts

SpecAggregate == InitAggregate /\ [][NextAggregate]_vars

(***************************************************************************)
(* Cursor and sheet over successive runs of run_service (main.py), for one *)
(* account                                                                 *)
(***************************************************************************)

\* The account's posts, numbered in the order the API pages through them;
\* the cursor n stands for "after post n" (0: no cursor stored).
FeedPosts == {1, 2, 3, 4}

\* What the write_posts_metrics call of the current run sent to the sheet:
\* the batch_update of the values, and the formatting calls.
NothingWritten == [values |-> FALSE, formatting |-> "none"]

InitDelivery ==
    /\ feed_cursor = 0
    /\ feed_run = "idle"
    /\ feed_fetched = {}
    /\ feed_seen = {}
    /\ feed_sheet = {}
    /\ feed_runs = 0
    /\ feed_now = 0
    /\ feed_lmw = None
    /\ feed_writes = NothingWritten
    /\ LockIdle
    /\ WaitIdle
    /\ ClientIdle
    /\ CollectIdle
    /\ StoreIdle
    /\ SheetIdle
    /\ AggIdle
    /\ CancelIdle
    /\ PagingIdle
    /\ RequestIdle

\* How the previous run_service ended, if there was one.
BetweenRuns == {"idle", "done", "failed", "cancelled", "skipped"}

is_empty_frame_never(rows) == FALSE

\* write_posts_metrics: "if df.empty:"
is_empty_frame(rows) == rows = {}

apply_formatting_reraises(formatting_failed) == formatting_failed

\* _apply_formatting: "except Exception: logging.exception(...)" -- a failure
\* of the formatting calls does not leave the method.
apply_formatting_raises(formatting_failed) == FALSE

\* Time passes between and during runs.
delivery_tick ==
    /\ feed_now < MaxTime
    /\ feed_now' = feed_now + 1
    /\ UNCHANGED <<feed_cursor, feed_run, feed_fetched, feed_seen, feed_sheet,
                   feed_runs, feed_lmw, feed_writes>>
    /\ UNCHANGED nonDeliveryVars

\* run_service begins (lock acquired): when the metrics are fresh it returns,
\* otherwise it reads the tokens and goes on to collect_posts.
delivery_run_service ==
    /\ feed_run \in BetweenRuns
    /\ feed_runs < MaxExecutions
    /\ feed_runs' = feed_runs + 1
    /\ feed_run' = IF should_refresh_metrics([last_metrics_write |-> feed_lmw],
                                             MetricsTtlTicks, feed_now)
                   THEN "collect_posts"
                   ELSE "skipped"
    /\ feed_fetched' = {}
    /\ feed_writes' = NothingWritten
    /\ UNCHANGED <<feed_cursor, feed_seen, feed_sheet, feed_now, feed_lmw>>
    /\ UNCHANGED nonDeliveryVars

\* _collect_for_account: fetch_posts(after=cursor) returns the posts after
\* the stored cursor up to post last, and its cursor is stored at once.
delivery_collect_posts(last) ==
    /\ feed_run = "collect_posts"
    /\ last >= feed_cursor
    /\ feed_fetched' = {p \in FeedPosts : feed_cursor < p /\ p <= last}
    /\ feed_seen' = feed_seen \cup feed_fetched'
    /\ feed_cursor' = IF should_store_cursor(IF last = 0 THEN None ELSE last)
                      THEN last ELSE feed_cursor
    /\ feed_run' = "collect_insights"
    /\ UNCHANGED <<feed_sheet, feed_runs, feed_now, feed_lmw, feed_writes>>
    /\ UNCHANGED nonDeliveryVars

\* collect_insights returns.
delivery_collect_insights ==
    /\ feed_run = "collect_insights"
    /\ feed_run' = "write"
    /\ UNCHANGED <<feed_cursor, feed_fetched, feed_seen, feed_sheet, feed_runs,
                   feed_now, feed_lmw, feed_writes>>
    /\ UNCHANGED nonDeliveryVars

\* The run timeout or a stop signal cancels the service task at an await;
\* what was collected is dropped, the state file stays as it is.
delivery_cancelled ==
    /\ feed_run \in {"collect_posts", "collect_insights"}
    /\ feed_run' = "cancelled"
    /\ feed_fetched' = {}
    /\ UNCHANGED <<feed_cursor, feed_seen, feed_sheet, feed_runs, feed_now,
                   feed_lmw, feed_writes>>
    /\ UNCHANGED nonDeliveryVars

\* sheets.write_posts_metrics(aggregate_posts(posts, insights)) with a
\* worksheet that can be read and written: an empty frame only updates
\* last_metrics_write; otherwise the values are written, the formatting calls
\* are made (and may fail) and last_metrics_write is updated.
delivery_write_posts_metrics(formatting_fails) ==
    /\ feed_run = "write"
    /\ IF is_empty_frame(feed_fetched)
       THEN /\ feed_writes' = NothingWritten
            /\ feed_lmw' = feed_now
            /\ feed_run' = "done"
            /\ UNCHANGED feed_sheet
       ELSE /\ feed_sheet' = feed_sheet \cup feed_fetched
            /\ feed_writes' = [values |-> TRUE,
                               formatting |-> IF formatting_fails
                                              THEN "failed" ELSE "applied"]
            /\ IF formatting_fails /\ apply_formatting_raises(formatting_fails)
               THEN /\ feed_run' = "failed"
                    /\ UNCHANGED feed_lmw
               ELSE /\ feed_run' = "done"
                    /\ feed_lmw' = feed_now
    /\ feed_fetched' = {}
    /\ UNCHANGED <<feed_cursor, feed_seen, feed_runs, feed_now>>
    /\ UNCHANGED nonDeliveryVars

\* sheets.write_posts_metrics raises before anything is written (the
\* worksheet cannot be opened, read or written); the run ends with the error.
delivery_write_fails ==
    /\ feed_run = "write"
    /\ feed_run' = "failed"
    /\ feed_fetched' = {}
    /\ feed_writes' = NothingWritten
    /\ UNCHANGED <<feed_cursor, feed_seen, feed_sheet, feed_runs, feed_now,
                   feed_lmw>>
    /\ UNCHANGED nonDeliveryVars

NextDelivery ==
    \/ delivery_tick
    \/ delivery_run_service
    \/ \E last \in FeedPosts \cup {0} : delivery_collect_posts(last)
    \/ delivery_collect_insights
    \/ delivery_cancelled
    \/ \E formatting_fails \in BOOLEAN :
          delivery_write_posts_metrics(formatting_fails)
    \/ delivery_write_fails

SpecDelivery == InitDelivery /\ [][NextDelivery]_vars

(***************************************************************************)
(* cancel_pending_workflow_runs (gh_cancel.py)                             *)
(***************************************************************************)

DEFAULT_INTERVAL_SECONDS == 10

MAX_BACKOFF_SECONDS == 600

\* The model stops starting iterations after this many.
MaxIterations == 3

Min(a, b) == IF a <= b THEN a ELSE b

\* "workflow_runs" of a response: each run is its "id" (None: no id).
InProgressLists == {<<>>, <<3>>}

QueuedLists ==
    {<<>>} \cup {<<x>> : x \in {None, 1, 2}}
           \cup {<<x, y>> : x \in {None, 1}, y \in {None, 2}}

\* interval_seconds and max_iterations of the calls the model makes.
Intervals == {0, 400}

MaxIterationValues == {None, 1, 2}

\* The request of _process_iteration that fails, and how.
IterationStages == {"in_progress", "queued", "cancel"}

IterationErrors == {"rate_limited", "status_error", "network_error"}

NoIterationFailure == [stage |-> "none", kind |-> "ok"]

IterationFailures ==
    {NoIterationFailure} \cup [stage : IterationStages, kind : IterationErrors]

\* backoff_seconds = interval_seconds or DEFAULT_INTERVAL_SECONDS
initial_backoff(interval) ==
    IF interval # 0 THEN interval ELSE DEFAULT_INTERVAL_SECONDS

runs_to_cancel_always(in_progress_runs, queued_runs) ==
    {queued_runs[i] : i \in DOMAIN queued_runs} \ {None}

\* _process_iteration: the runs that get a _cancel_run coroutine.
runs_to_cancel(in_progress_runs, queued_runs) ==
    IF in_progress_runs = <<>>
    THEN {}
    ELSE {queued_runs[i] : i \in DOMAIN queued_runs} \ {None}

InitCancel ==
    /\ gh_phase = "top"
    /\ gh_iteration = 0
    /\ gh_max \in MaxIterationValues
    /\ gh_interval \in Intervals
    /\ gh_backoff = initial_backoff(gh_interval)
    /\ gh_stop \in BOOLEAN
    /\ gh_runs = [fetched |-> FALSE, in_progress |-> <<>>, queued |-> <<>>]
    /\ gh_cancelled = {}
    /\ gh_ended = "none"
    /\ LockIdle
    /\ WaitIdle
    /\ ClientIdle
    /\ CollectIdle
    /\ StoreIdle
    /\ SheetIdle
    /\ AggIdle
    /\ DeliveryIdle
    /\ PagingIdle
    /\ RequestIdle

\* _handle_signal, or the caller's stop_event.set().
gh_stop_event_set ==
    /\ gh_phase # "returned"
    /\ ~gh_stop
    /\ gh_stop' = TRUE
    /\ UNCHANGED <<gh_phase, gh_iteration, gh_max, gh_interval, gh_backoff,
                   gh_runs, gh_cancelled, gh_ended>>
    /\ UNCHANGED nonCancelVars

\* while True: if local_stop_event.is_set(): break
gh_stop_requested ==
    /\ gh_phase = "top"
    /\ gh_stop
    /\ gh_phase' = "returned"
    /\ UNCHANGED <<gh_iteration, gh_max, gh_interval, gh_backoff, gh_stop,
                   gh_runs, gh_cancelled, gh_ended>>
    /\ UNCHANGED nonCancelVars

\* iteration += 1; await _process_iteration(...) and what follows it in the
\* loop body: after an exception the handler sleeps and continues; after a
\* return the max_iterations test, then the wait for the interval.
gh_process_iteration(in_progress_runs, queued_runs, failure) ==
    /\ gh_phase = "top"
    /\ ~gh_stop
    /\ gh_iteration < MaxIterations
    /\ failure.stage = "cancel" =>
          runs_to_cancel(in_progress_runs, queued_runs) # {}
    /\ gh_iteration' = gh_iteration + 1
    /\ gh_ended' = failure.kind
    /\ IF failure.stage \in {"in_progress", "queued"}
       THEN /\ gh_runs' = [fetched |-> FALSE, in_progress |-> <<>>,
                           queued |-> <<>>]
            /\ gh_cancelled' = {}
       ELSE /\ gh_runs' = [fetched |-> TRUE, in_progress |-> in_progress_runs,
                           queued |-> queued_runs]
            /\ gh_cancelled' = runs_to_cancel(in_progress_runs, queued_runs)
    /\ IF failure.stage # "none"
       THEN /\ gh_phase' = "sleep"
            /\ UNCHANGED gh_backoff
       ELSE /\ gh_backoff' = initial_backoff(gh_interval)
            /\ gh_phase' =
                  IF gh_max # None /\ gh_iteration' >= gh_max THEN "returned"
                  ELSE IF gh_interval = 0 THEN "top"
                  ELSE "wait"
    /\ UNCHANGED <<gh_max, gh_interval, gh_stop>>
    /\ UNCHANGED nonCancelVars

\* await asyncio.sleep(backoff_seconds) is over; after a 403 or 429 the
\* backoff doubles; continue.
gh_sleep_over ==
    /\ gh_phase = "sleep"
    /\ gh_backoff' = IF gh_ended = "rate_limited"
                     THEN Min(gh_backoff * 2, MAX_BACKOFF_SECONDS)
                     ELSE gh_backoff
    /\ gh_phase' = "top"
    /\ UNCHANGED <<gh_iteration, gh_max, gh_interval, gh_stop, gh_runs,
                   gh_cancelled, gh_ended>>
    /\ UNCHANGED nonCancelVars

\* asyncio.wait_for(local_stop_event.wait(), timeout=interval_seconds) is
\* over: the event was set, or the timeout passed.
gh_wait_over ==
    /\ gh_phase = "wait"
    /\ gh_phase' = "top"
    /\ UNCHANGED <<gh_iteration, gh_max, gh_interval, gh_backoff, gh_stop,
                   gh_runs, gh_cancelled, gh_ended>>
    /\ UNCHANGED nonCancelVars

NextCancel ==
    \/ gh_stop_event_set
    \/ gh_stop_requested
    \/ \E in_progress_runs \in InProgressLists : \E queued_runs \in QueuedLists :
          \E failure \in IterationFailures :
             gh_process_iteration(in_progress_runs, queued_runs, failure)
    \/ gh_sleep_over
    \/ gh_wait_over

SpecCancel == InitCancel /\ [][NextCancel]_vars

(***************************************************************************)
(* ThreadsClient.fetch_posts: one call and the pages it requests           *)
(***************************************************************************)

\* The model stops requesting pages after this many.
MaxPages == 3

\* The "after" argument: no cursor, or the stored cursor of the account.
StoredCursor == 3

StartCursors == {None, StoredCursor}

\* paging.next: absent, or a URL with its "after" query parameter (None: the
\* URL has none).
NoNextUrl == [given |-> FALSE, after |-> None]

NextUrls == {NoNextUrl, [given |-> TRUE, after |-> None],
             [given |-> TRUE, after |-> 2]}

\* paging.cursors.after: absent, or a cursor.
AfterCursors == {None, 1}

\* The number of posts in the "data" of a page.
PageSizes == {0, 1, 2}

\* What fetch_posts has returned before it returns.
NoFetchResult == [posts |-> <<>>, next_cursor |-> None]

\* The id of the n-th post the server returns in this call.
PostId(n) == 10 + n

\* A page served after n posts: its "data" (post ids), paging.cursors.after
\* and paging.next.
PageAfter(n, size, after_value, next_url) ==
    [data |-> [i \in 1..size |-> PostId(n + i)],
     after |-> after_value,
     next |-> next_url]

\* ThreadsClient._extract_after_from_url
extract_after_from_url(url) == url.after

\* fetch_posts: after_cursor of a page -- cursors.after, else the "after" of
\* the next URL.
page_cursor(page) ==
    IF page.after # None THEN page.after
    ELSE IF page.next.given THEN extract_after_from_url(page.next)
    ELSE None

extend_posts_front(posts, data) == data \o posts

\* fetch_posts: posts.append(...) for every item of data, in order.
extend_posts(posts, data) == posts \o data

\* fetch_posts: "if cursor is None and posts: cursor = posts[-1].id"
final_cursor(cursor, posts) ==
    IF cursor = None /\ posts # <<>> THEN posts[Len(posts)] ELSE cursor

InitPaging ==
    /\ pg_after \in StartCursors
    /\ pg_phase = "requesting"
    /\ pg_params = pg_after
    /\ pg_cursor = pg_after
    /\ pg_posts = <<>>
    /\ pg_requests = <<>>
    /\ pg_pages = <<>>
    /\ pg_result = NoFetchResult
    /\ LockIdle
    /\ WaitIdle
    /\ ClientIdle
    /\ CollectIdle
    /\ StoreIdle
    /\ SheetIdle
    /\ AggIdle
    /\ DeliveryIdle
    /\ CancelIdle
    /\ RequestIdle

\* One pass of the loop: the request with the current params returns a page;
\* its posts are appended; without a cursor, or without a next URL, the loop
\* ends and the result is returned.
pg_page_returns(page) ==
    /\ pg_phase = "requesting"
    /\ Len(pg_requests) < MaxPages
    /\ pg_requests' = Append(pg_requests, pg_params)
    /\ pg_pages' = Append(pg_pages, page)
    /\ pg_posts' = extend_posts(pg_posts, page.data)
    /\ LET after_cursor == page_cursor(page)
       IN  IF after_cursor = None
           THEN /\ pg_phase' = "returned"
                /\ pg_result' = [posts |-> pg_posts',
                                 next_cursor |-> final_cursor(pg_cursor, pg_posts')]
                /\ UNCHANGED <<pg_cursor, pg_params>>
           ELSE /\ pg_cursor' = after_cursor
                /\ pg_params' = after_cursor
                /\ IF ~page.next.given
                   THEN /\ pg_phase' = "returned"
                        /\ pg_result' =
                              [posts |-> pg_posts',
                               next_cursor |-> final_cursor(after_cursor, pg_posts')]
                   ELSE /\ pg_phase' = "requesting"
                        /\ UNCHANGED pg_result
    /\ UNCHANGED pg_after
    /\ UNCHANGED nonPagingVars

\* The request raises (_request gave up): fetch_posts raises.
pg_request_raises ==
    /\ pg_phase = "requesting"
    /\ Len(pg_requests) < MaxPages
    /\ pg_requests' = Append(pg_requests, pg_params)
    /\ pg_phase' = "raised"
    /\ UNCHANGED <<pg_after, pg_params, pg_cursor, pg_posts, pg_pages, pg_result>>
    /\ UNCHANGED nonPagingVars

NextPaging ==
    \/ \E size \in PageSizes : \E after_value \in AfterCursors :
          \E next_url \in NextUrls :
             pg_page_returns(PageAfter(Len(pg_posts), size, after_value, next_url))
    \/ pg_request_raises

SpecPaging == InitPaging /\ [][NextPaging]_vars

(***************************************************************************)
(* collect_insights down to the HTTP requests of ThreadsClient._request    *)
(***************************************************************************)

\* The entries of the "posts" list passed to collect_insights.
RequestPosts == {"q1", "q2"}

\* A post entry: it has an "id", its account has a token in the token map,
\* and the time its metrics were last refreshed (None: never).
PostEntries ==
    [id : BOOLEAN, token : BOOLEAN,
     updated_at : {None, CollectNow - MetricsTtlTicks,
                   CollectNow - MetricsTtlTicks + 1}]

PostLists ==
    {posts \in [RequestPosts -> PostEntries] :
        /\ ~(posts["q1"].id /\ posts["q1"].token) => posts["q1"].updated_at = None
        /\ posts["q2"].id /\ posts["q2"].token
        /\ posts["q2"].updated_at # CollectNow - MetricsTtlTicks}

\* What one HTTP request of _request ends with: a response that is returned,
\* a status error or network error (retried), or an exception that is not
\* retried (response.json() fails, or the wait before the retry cannot be
\* slept).
Responses == {"ok", "status_error", "network_error", "raises"}

\* The responses the model draws for the requests of a post: all of them for
\* the first post; for the second, which runs beside it, a response or a
\* status error.
ResponsesFor(p) == IF p = "q1" THEN Responses ELSE {"ok", "status_error"}

needs_fetch_ignores_ttl(post, ttl, t) == post.id /\ post.token

\* collect_insights: the tests before tasks.append(...).
needs_fetch(post, ttl, t) ==
    /\ post.id
    /\ post.token
    /\ should_refresh_post_metrics([x \in {"post"} |-> post.updated_at], "post",
                                   ttl, t)

NothingSent == [first |-> 0, retry |-> 0, call |-> 0]

InitRequests ==
    /\ iq_posts \in PostLists
    /\ iq_phase = "not_called"
    /\ iq_task = [p \in RequestPosts |-> "none"]
    /\ iq_calls = [p \in RequestPosts |-> 0]
    /\ iq_attempt = [p \in RequestPosts |-> 0]
    /\ iq_sent = [p \in RequestPosts |-> NothingSent]
    /\ LockIdle
    /\ WaitIdle
    /\ ClientIdle
    /\ CollectIdle
    /\ StoreIdle
    /\ SheetIdle
    /\ AggIdle
    /\ DeliveryIdle
    /\ CancelIdle
    /\ PagingIdle

\* Positions in which a task still has work to do.
Unfinished == {"ready", "sleeping", "pausing"}

\* collect_insights is called: one _fetch task per post that passes the
\* tests; without tasks it returns at once.
iq_collect_insights ==
    /\ iq_phase = "not_called"
    /\ iq_task' = [p \in RequestPosts |->
                     IF needs_fetch(iq_posts[p], MetricsTtlTicks, CollectNow)
                     THEN "ready" ELSE "none"]
    /\ iq_attempt' = [p \in RequestPosts |-> IF iq_task'[p] = "ready" THEN 1 ELSE 0]
    /\ iq_phase' = IF \E p \in RequestPosts : iq_task'[p] = "ready"
                   THEN "first_pass" ELSE "returned"
    /\ UNCHANGED <<iq_posts, iq_calls, iq_sent>>
    /\ UNCHANGED nonRequestVars

\* The fetch_post_insights call of p has raised: _fetch puts the post on
\* failed_requests; _retry_single pauses before its next attempt or, after
\* the last one, returns None.
call_failed(p) ==
    IF iq_phase = "first_pass" THEN "failed"
    ELSE IF iq_calls[p] >= retry_limit(RetrySettings) THEN "gave_up"
    ELSE "pausing"

\* _request: self._client.get(...) of the current attempt and what follows
\* it up to the next await.
iq_http_request(p, response) ==
    /\ iq_phase \in {"first_pass", "retry_wave"}
    /\ iq_task[p] = "ready"
    /\ response \in ResponsesFor(p)
    /\ iq_sent' = [iq_sent EXCEPT ![p] =
                      IF iq_phase = "first_pass"
                      THEN [@ EXCEPT !.first = @ + 1, !.call = @ + 1]
                      ELSE [@ EXCEPT !.retry = @ + 1, !.call = @ + 1]]
    /\ iq_task' = [iq_task EXCEPT ![p] =
                      IF response = "ok" THEN "ok"
                      ELSE IF response = "raises" THEN call_failed(p)
                      ELSE IF iq_attempt[p] >= MAX_ATTEMPTS THEN call_failed(p)
                      ELSE "sleeping"]
    /\ UNCHANGED <<iq_posts, iq_phase, iq_calls, iq_attempt>>
    /\ UNCHANGED nonRequestVars

\* _request: the sleep before the next attempt is over.
iq_sleep_over(p) ==
    /\ iq_task[p] = "sleeping"
    /\ iq_task' = [iq_task EXCEPT ![p] = "ready"]
    /\ iq_attempt' = [iq_attempt EXCEPT ![p] = @ + 1]
    /\ UNCHANGED <<iq_posts, iq_phase, iq_calls, iq_sent>>
    /\ UNCHANGED nonRequestVars

\* results = await asyncio.gather(*tasks): the first pass is over; with
\* failed requests retry_failed_insights starts a _retry_single task each,
\* otherwise collect_insights returns.
iq_first_pass_gathered ==
    /\ iq_phase = "first_pass"
    /\ \A p \in RequestPosts : iq_task[p] \notin Unfinished
    /\ IF \E p \in RequestPosts : iq_task[p] = "failed"
       THEN /\ iq_phase' = "retry_wave"
            /\ iq_task' = [p \in RequestPosts |->
                             IF iq_task[p] = "failed" THEN "ready" ELSE iq_task[p]]
            /\ iq_calls' = [p \in RequestPosts |->
                              IF iq_task[p] = "failed" THEN 1 ELSE 0]
            /\ iq_attempt' = [p \in RequestPosts |->
                                IF iq_task[p] = "failed" THEN 1 ELSE iq_attempt[p]]
            /\ iq_sent' = [p \in RequestPosts |-> [iq_sent[p] EXCEPT !.call = 0]]
       ELSE /\ iq_phase' = "returned"
            /\ UNCHANGED <<iq_task, iq_calls, iq_attempt, iq_sent>>
    /\ UNCHANGED iq_posts
    /\ UNCHANGED nonRequestVars

\* _retry_single: the pause is over and the next attempt calls
\* fetch_post_insights.
iq_pause_over(p) ==
    /\ iq_task[p] = "pausing"
    /\ iq_task' = [iq_task EXCEPT ![p] = "ready"]
    /\ iq_calls' = [iq_calls EXCEPT ![p] = @ + 1]
    /\ iq_attempt' = [iq_attempt EXCEPT ![p] = 1]
    /\ iq_sent' = [iq_sent EXCEPT ![p].call = 0]
    /\ UNCHANGED <<iq_posts, iq_phase>>
    /\ UNCHANGED nonRequestVars

\* retry_failed_insights has gathered its tasks; collect_insights returns.
iq_retry_wave_gathered ==
    /\ iq_phase = "retry_wave"
    /\ \A p \in RequestPosts : iq_task[p] \notin Unfinished
    /\ iq_phase' = "returned"
    /\ UNCHANGED <<iq_posts, iq_task, iq_calls, iq_attempt, iq_sent>>
    /\ UNCHANGED nonRequestVars

NextRequests ==
    \/ iq_collect_insights
    \/ \E p \in RequestPosts : \E response \in Responses : iq_http_request(p, response)
    \/ \E p \in RequestPosts : iq_sleep_over(p)
    \/ iq_first_pass_gathered
    \/ \E p \in RequestPosts : iq_pause_over(p)
    \/ iq_retry_wave_gathered

SpecRequests == InitRequests /\ [][NextRequests]_vars

\* Every response arrives and every sleep ends: the event loop runs a task
\* that can run.
FairRequests == SpecRequests /\ WF_vars(NextRequests)

(***************************************************************************)
(* Claims about the run lock (checked under SpecLock)                      *)
(***************************************************************************)

\* C1: try_acquire_run_lock(max_age) returns true iff no lock is stored or
\* the stored lock is older than max_age; on true the current time is stored
\* as run_started_at (in memory and in the file), on false the store and the
\* file are left as they were.
C1_TryAcquireContract ==
    [][\A r \in Runs :
        (rpc[r] = "constructed" /\ rpc'[r] # "constructed") =>
            LET stored == mem[r].run_started_at
                free == stored = None \/ now - stored > RunTimeoutTicks
            IN  /\ acquired'[r] = free
                /\ free => /\ mem'[r].run_started_at = now
                           /\ file'.run_started_at = now
                /\ ~free => /\ mem'[r] = mem[r]
                            /\ file' = file]_vars

\* A run was refused the lock that the other run holds.
C1_Witness ==
    \E r1, r2 \in Runs :
        /\ rpc[r1] = "done" /\ outcome[r1] = "not_acquired"
        /\ rpc[r2] \in Holding /\ acquired[r2]

\* C2: two executions are never both between a successful acquisition and
\* their release while the lock of the earlier one is younger than the run
\* timeout.
C2_AtMostOneHolder ==
    \A r1, r2 \in Runs :
        ( /\ r1 # r2
          /\ rpc[r1] \in Holding /\ rpc[r2] \in Holding
          /\ mem[r1].run_started_at <= mem[r2].run_started_at )
        => now - mem[r1].run_started_at > RunTimeoutTicks

\* C3: an execution that acquired the lock has called release_run_lock by
\* the time it ends, whatever ended it.
C3_LockReleasedOnEveryPath ==
    \A r \in Runs : (rpc[r] = "done" /\ acquired[r]) => released[r]

\* An execution that was cancelled by the run timeout has ended.
C3_Witness ==
    \E r \in Runs :
        rpc[r] = "done" /\ acquired[r] /\ outcome[r] = "cancelled_timeout"

\* C4: an execution that is refused the lock ends at once, without raising,
\* without any outside effect and without touching the state file.
C4_RefusedRunDoesNothing ==
    [][\A r \in Runs :
        ( /\ rpc'[r] # rpc[r]
          /\ rpc[r] # "idle" /\ rpc'[r] # "idle"
          /\ ~acquired'[r] )
        => /\ rpc'[r] = "done"
           /\ outcome'[r] = "not_acquired"
           /\ did'[r] = {}
           /\ file' = file]_vars

\* A refused execution has ended and the other run's lock is still in the file.
C4_Witness ==
    \E r \in Runs :
        /\ rpc[r] = "done" /\ ~acquired[r] /\ outcome[r] = "not_acquired"
        /\ did[r] = {}
        /\ file.run_started_at # None

C21_ReleaseClearsUnconditionally ==
    [][\A r \in Runs :
          /\ (rpc[r] = "finally" /\ rpc'[r] = "done") =>
                 /\ mem'[r].run_started_at = None
                 /\ file'.run_started_at = None
          /\ ( /\ rpc[r] = "constructed" /\ rpc'[r] # "constructed"
               /\ mem[r].run_started_at = None ) =>
                 /\ acquired'[r]
                 /\ file'.run_started_at = now]_vars

\* C21 witness: an execution has released its lock and, before any time has
\* passed, the next execution has acquired the lock.
C21_Witness ==
    \E r1, r2 \in Runs :
        /\ rpc[r1] = "done" /\ acquired[r1] /\ released[r1]
        /\ rpc[r2] = "locked" /\ acquired[r2]
        /\ now = 0
        /\ file.run_started_at = 0

\* C28: when write_posts_metrics raises, run_service ends with that error:
\* the step leaves last_metrics_write and the state file as they were, no
\* sheet write is counted, the execution goes through the finally clause,
\* and it ends with the lock released.
C28_WriteFailureEndsRun ==
    [][\A r \in Runs :
          /\ (rpc[r] = "write" /\ rpc'[r] # "write" /\ outcome'[r] # "completed") =>
                 /\ outcome'[r] = "error"
                 /\ rpc'[r] = "finally"
                 /\ mem'[r].last_metrics_write = mem[r].last_metrics_write
                 /\ file' = file
                 /\ "sheet" \notin did'[r]
          /\ (rpc[r] = "finally" /\ rpc'[r] = "done" /\ outcome[r] = "error") =>
                 /\ released'[r]
                 /\ mem'[r].run_started_at = None
                 /\ file'.run_started_at = None
                 /\ mem'[r].last_metrics_write = mem[r].last_metrics_write]_vars

\* C28 witness: an execution whose sheet write failed after both collecting
\* steps has ended with the lock released and without a last write.
C28_Witness ==
    \E r \in Runs :
        /\ rpc[r] = "done" /\ outcome[r] = "error"
        /\ did[r] = {"tokens", "api"}
        /\ mem[r].post_metrics_updated_at = 1
        /\ acquired[r] /\ released[r]
        /\ file.last_metrics_write = None
        /\ file.run_started_at = None

(***************************************************************************)
(* Claims about the rate-limit wait (checked under SpecWait)               *)
(***************************************************************************)

\* C8 as stated: for a rate-limit response at attempt n < 5 the wait is the
\* Retry-After value when it is a non-negative number; otherwise the
\* estimated time found in the usage header; otherwise 10 * 2^(n-1).
C8_WaitByPriorityAsStated ==
    (wResolved.reason # "" /\ wResponse.status = 403 /\ wResponse.rate_limit_phrase) =>
        LET ra == wResponse.headers.retry_after.name
            usage == wResponse.headers.usage.name
            raValue == CASE ra = "12" -> 12 [] ra = "0" -> 0 [] OTHER -> None
            estimate == CASE usage = "nested 30" -> 30
                          [] usage = "null then 7" -> 7
                          [] usage = "string 15" -> 15
                          [] OTHER -> None
            noEstimate == usage \in {"absent", "empty", "not json", "no estimate",
                                     "bare number"}
        IN  /\ raValue # None => wResolved.wait = raValue
            /\ (raValue = None /\ estimate # None) => wResolved.wait = estimate
            /\ (raValue = None /\ noEstimate) =>
                   wResolved.wait = <<10, 20, 40, 80>>[wAttempt]

\* C8 amended: the wait is max(v, 0) when Retry-After is a number v;
\* otherwise max(e, 0) when the first estimated_time_to_regain_access found in
\* the usage header (a dict's own field before its nested values, null
\* results of nested values skipped) converts to a number e; otherwise
\* 10 * 2^(n-1).
C8_WaitByPriority ==
    (wResolved.reason # "" /\ wResponse.status = 403 /\ wResponse.rate_limit_phrase) =>
        LET ra == wResponse.headers.retry_after.name
            usage == wResponse.headers.usage.name
            raValue == CASE ra = "12" -> 12 [] ra = "0" -> 0 [] ra = "-5" -> 0
                         [] OTHER -> None
            estimate == CASE usage = "nested 30" -> 30
                          [] usage = "null then 7" -> 7
                          [] usage = "string 15" -> 15
                          [] usage = "-3" -> 0
                          [] OTHER -> None
        IN  /\ wResolved.reason = "threads_profile_rate_limit"
            /\ raValue # None =>
                   /\ wResolved.wait = raValue
                   /\ wResolved.source = "retry_after"
            /\ (raValue = None /\ estimate # None) =>
                   /\ wResolved.wait = estimate
                   /\ wResolved.source = "business_use_case"
            /\ (raValue = None /\ estimate = None) =>
                   /\ wResolved.wait = <<10, 20, 40, 80>>[wAttempt]
                   /\ wResolved.source = "fallback_backoff"

\* C8 witness: a rate-limit response with "Retry-After: -5" and an estimate of
\* 30 in the usage header has been resolved to a wait of 0.
C8_Witness ==
    /\ wResponse.status = 403
    /\ wResponse.rate_limit_phrase
    /\ wResponse.headers.retry_after.name = "-5"
    /\ wResponse.headers.usage.name = "nested 30"
    /\ wResolved.reason = "threads_profile_rate_limit"
    /\ wResolved.source = "retry_after"
    /\ wResolved.wait = 0

(***************************************************************************)
(* Claims about concurrent requests (checked under SpecClient)             *)
(***************************************************************************)

\* C5 as stated: after a rate-limit response for account A at time t with wait
\* w, no task sends an HTTP request for A before t + w.
C5_NoSendBeforeRateLimitDeadline ==
    [][\A t \in Tasks :
          sent'[t] > sent[t] => clock >= rlUntil[account_name[t]]]_vars

\* C6 as stated: a request of another account that waits for the semaphore is
\* never held up only by tasks that sleep off a rate limit: never is the
\* semaphore exhausted with every permit in the hands of a task of a
\* different account that is in its rate-limit backoff sleep.
C6_RateLimitNeverDelaysOtherAccount ==
    \A b \in Tasks :
        (tpc[b] = "wait_sem" /\ cooldowns[account_name[b]] = None /\ permits = 0) =>
            \E h \in Tasks :
                /\ HoldsPermit(h)
                /\ ~ /\ account_name[h] # account_name[b]
                     /\ tpc[h] = "backoff_sleep"
                     /\ reason[h] = "threads_profile_rate_limit"
                     /\ wakeAt[h] > clock

C9_NextAttemptExactlyAfterBackoff ==
    [][\A t \in Tasks :
          (sent'[t] > sent[t] /\ reason[t] \in {"http_status", "http_error"}) =>
              clock = failAt[t] + <<5, 15, 45, 135>>[attempt'[t] - 1]]_vars

\* C9 amended: after such an error at attempt n < 5 the backoff sleep lasts
\* exactly 5 * 3^(n-1) seconds; attempt n + 1 is sent when it ends, unless the
\* account's cooldown is then still in the future, in which case it is sent
\* when that cooldown, as read at that moment, has passed.
C9_BackoffThenCooldown ==
    [][\A t \in Tasks :
          LET transient == {"http_status", "http_error"}
              backoff == <<5, 15, 45, 135>>
          IN  /\ (tpc[t] = "in_flight" /\ tpc'[t] = "backoff_sleep"
                                       /\ reason'[t] \in transient) =>
                     /\ attempt[t] < 5
                     /\ wakeAt'[t] = clock + backoff[attempt[t]]
              /\ (tpc[t] = "backoff_sleep" /\ tpc'[t] # "backoff_sleep"
                                           /\ reason[t] \in transient) =>
                     /\ clock = failAt[t] + backoff[attempt[t]]
                     /\ attempt'[t] = attempt[t] + 1
                     /\ \/ /\ tpc'[t] = "in_flight"
                           /\ sent'[t] = sent[t] + 1
                        \/ /\ tpc'[t] = "cooldown_sleep"
                           /\ cooldowns[account_name[t]] > clock
                           /\ wakeAt'[t] = cooldowns[account_name[t]]
              /\ (tpc[t] = "cooldown_sleep" /\ tpc'[t] # "cooldown_sleep"
                                            /\ reason[t] \in transient) =>
                     /\ clock = wakeAt[t]
                     /\ tpc'[t] = "in_flight"
                     /\ sent'[t] = sent[t] + 1]_vars

\* C9 witness: a request whose first attempt failed with a transient error
\* has slept its 5 seconds and now waits out the account's cooldown before
\* attempt 2.
C9_Witness ==
    \E t \in Tasks :
        /\ tpc[t] = "cooldown_sleep"
        /\ reason[t] \in {"http_status", "http_error"}
        /\ attempt[t] = 2
        /\ clock = failAt[t] + 5
        /\ wakeAt[t] > clock

\* C10 as stated: a non-rate-limit HTTP error or a network error leaves the
\* cooldown map unchanged.
C10_TransientSetsNoCooldown ==
    [][\A t \in Tasks :
          (fails'[t] > fails[t] /\ reason'[t] \in {"http_status", "http_error"}) =>
              cooldowns' = cooldowns]_vars

\* C11: at every moment the number of HTTP requests in flight from the
\* client is at most concurrency_limit.
C11_InFlightAtMostLimit ==
    Cardinality({t \in Tasks : tpc[t] = "in_flight"}) <= limit

\* C11 witness: as many requests in flight as the limit allows while another
\* task waits for a permit.
C11_Witness ==
    /\ Cardinality({t \in Tasks : tpc[t] = "in_flight"}) = limit
    /\ limit = 2
    /\ \E t \in Tasks : tpc[t] = "wait_sem"

(***************************************************************************)
(* Claims about collect_posts (checked under SpecPosts)                    *)
(***************************************************************************)

\* C12 as stated: whatever error an account's fetch_posts ends with, the
\* account contributes no posts and collect_posts does not raise.
C12_AccountFailureNeverAborts ==
    \A a \in Accounts :
        fetch_result[a].kind \in FetchErrors =>
            /\ fetch_result[a].posts = {}
            /\ posts_result # "raised"

\* C13: an account's stored cursor is written, and differs from the one
\* stored before collect_posts, only if its fetch returned a cursor, and then
\* it is that cursor; the cursor of an account whose fetch failed is not
\* touched.
C13_CursorChangesOnlyOnSuccess ==
    \A a \in Accounts :
        /\ (cursor_sets[a] > 0 \/ stored_cursor[a] # cursor_before[a]) =>
               /\ fetch_result[a].kind = "ok"
               /\ fetch_result[a].next_cursor # None
               /\ stored_cursor[a] = fetch_result[a].next_cursor
        /\ fetch_result[a].kind \in FetchErrors =>
               /\ cursor_sets[a] = 0
               /\ stored_cursor[a] = cursor_before[a]

\* C13 witness: collect_posts has returned; one account got the new cursor 2
\* in place of 1, the other's fetch failed and its cursor is still 1.
C13_Witness ==
    /\ posts_result = "returned"
    /\ \E a, b \in Accounts :
          /\ fetch_result[a].kind = "ok"
          /\ cursor_before[a] = 1
          /\ stored_cursor[a] = 2
          /\ fetch_result[b].kind = "HTTPStatusError"
          /\ cursor_before[b] = 1
          /\ stored_cursor[b] = 1

(***************************************************************************)
(* Claims about collect_insights (checked under SpecInsights)              *)
(***************************************************************************)

\* C14: collect_insights never raises because of a failed insight fetch, and
\* when it returns, a post that needed a refresh is in the insight map exactly
\* when its first fetch or one of its retry attempts succeeded; no other post
\* is in the map.
C14_InsightMapHoldsTheSuccesses ==
    /\ insights_phase # "raised"
    /\ insights_phase = "returned" =>
          \A p \in Posts :
              LET needed == /\ p \in flat
                            /\ \/ post_ts_before[p] = None
                               \/ CollectNow - post_ts_before[p] >= MetricsTtlTicks
              IN  /\ p \in insights_map => needed
                  /\ needed => (p \in insights_map <=>
                                   (first_fetch[p] = "ok" \/ retry_state[p] = "got"))
                  /\ retry_state[p] = "gave_up" => p \notin insights_map

\* C14 witness: collect_insights has returned a map with a post fetched at
\* once and a post fetched by its second retry attempt, without a post whose
\* attempts all failed.
C14_Witness ==
    /\ insights_phase = "returned"
    /\ \E p, q, r \in Posts :
          /\ first_fetch[p] = "ok" /\ p \in insights_map
          /\ retry_state[q] = "got" /\ retry_calls[q] = 2 /\ q \in insights_map
          /\ retry_state[r] = "gave_up" /\ r \notin insights_map

\* C15: in the retry wave a post that failed its first fetch gets at least
\* one and at most 3 fetch_post_insights calls, none after its first success,
\* none for a post that did not fail, and a pause from 20..30 seconds before
\* every attempt but the first.
C15_RetryWaveAttempts ==
    [][\A p \in Posts :
          /\ retry_calls'[p] <= 3
          /\ first_fetch'[p] # "failed" => retry_calls'[p] = 0
          /\ (insights_phase' = "returned" /\ first_fetch'[p] = "failed") =>
                 retry_calls'[p] >= 1
          /\ retry_state[p] = "got" => retry_calls'[p] = retry_calls[p]
          /\ retry_calls'[p] > retry_calls[p] =>
                 /\ retry_calls'[p] = retry_calls[p] + 1
                 /\ retry_pauses[p] = retry_calls[p]
                 /\ IF retry_calls[p] = 0
                    THEN pause[p] = None
                    ELSE /\ retry_state[p] = "pausing"
                         /\ pause[p] \in 20..30]_vars

\* C15 witness: a post is in its third retry attempt after two pauses.
C15_Witness ==
    \E p \in Posts :
        /\ first_fetch[p] = "failed"
        /\ retry_state[p] = "calling"
        /\ retry_calls[p] = 3
        /\ retry_pauses[p] = 2

\* C16: the posts whose timestamp collect_insights writes are exactly the keys
\* of the insight map it returns; every other timestamp is as it was.
C16_TimestampsFollowInsightMap ==
    /\ insights_phase # "returned" => (ts_written = {} /\ post_ts = post_ts_before)
    /\ insights_phase = "returned" =>
          /\ ts_written = insights_map
          /\ \A p \in Posts :
                IF p \in insights_map
                THEN post_ts[p] = CollectNow
                ELSE post_ts[p] = post_ts_before[p]

\* C16 witness: collect_insights has returned; the timestamp of a post fetched
\* in the retry wave is written, that of a post whose attempts all failed and
\* that of a post skipped as fresh are as before.
C16_Witness ==
    /\ insights_phase = "returned"
    /\ \E p, q, r \in Posts :
          /\ retry_state[p] = "got" /\ p \in ts_written /\ post_ts[p] = CollectNow
          /\ retry_state[q] = "gave_up" /\ post_ts[q] = post_ts_before[q]
          /\ post_ts_before[q] # None
          /\ first_fetch[r] = "skipped" /\ post_ts[r] = post_ts_before[r]

(***************************************************************************)
(* Claims about the state store (checked under SpecStore)                  *)
(***************************************************************************)

\* C18: should_refresh_post_metrics(post_id, ttl_minutes, now) answers true
\* exactly when no timestamp is stored for the post or the stored timestamp
\* plus ttl_minutes is not later than now; it answers false for every now
\* strictly inside the window; and the call changes neither the in-memory
\* state nor the file.
C18_RefreshIffAbsentOrExpired ==
    [][asked'.made =>
          LET stored == store.state.post_metrics_updated_at[asked'.post_id]
          IN  /\ asked'.answer <=>
                    (stored = None \/ stored + asked'.ttl <= asked'.now)
              /\ (stored # None /\ stored <= asked'.now
                     /\ asked'.now < stored + asked'.ttl) => ~asked'.answer
              /\ store' = store
              /\ disk' = disk]_vars

\* C18 witness: one post is asked about exactly at the end of its window and
\* the answer is true.
C18_Witness ==
    /\ asked.made
    /\ store.state.post_metrics_updated_at[asked.post_id] # None
    /\ asked.now - store.state.post_metrics_updated_at[asked.post_id] = asked.ttl
    /\ asked.answer

C20_CreationNeverFails ==
    [][(store.status = "none" /\ store'.status # "none") =>
          /\ store'.status = "ready"
          /\ (\/ disk.kind \in {"missing", "unreadable", "invalid_json"}
              \/ disk.doc.tag # "dict"
              \/ json_get(disk.doc, "cursors").tag \notin {"dict", "null"})
                 => store'.state = EmptyAppState]_vars

(***************************************************************************)
(* Claims about aggregate_posts (checked under SpecAggregate)              *)
(***************************************************************************)

\* C30: aggregate_posts returns one row for every post with a non-empty id,
\* in order.  With an insight set for the post id, views, quotes and shares
\* are the insight values and each of likes, replies and reposts is the
\* insight value when the field is present and the post's own counter
\* otherwise; without an insight set, views, quotes and shares are null and
\* likes, replies and reposts are the post's counters, a missing counter
\* read as 0.
C30_InsightPrecedence ==
    agg_called =>
        LET kept == SelectSeq(agg_posts, LAMBDA p : p.id # "")
            own(p, name) == IF p[name] = None THEN 0 ELSE p[name]
        IN  /\ Len(agg_rows) = Len(kept)
            /\ \A i \in 1..Len(kept) :
                  LET p == kept[i]
                      row == agg_rows[i]
                      entry == agg_insights[p.id]
                  IN  /\ row.post_id = p.id
                      /\ entry.has =>
                            /\ row.views = entry.values["views"]
                            /\ row.quotes = entry.values["quotes"]
                            /\ row.shares = entry.values["shares"]
                            /\ row.likes = IF entry.values["likes"] # None
                                           THEN entry.values["likes"]
                                           ELSE own(p, "like_count")
                            /\ row.replies = IF entry.values["replies"] # None
                                             THEN entry.values["replies"]
                                             ELSE own(p, "reply_count")
                            /\ row.reposts = IF entry.values["reposts"] # None
                                             THEN entry.values["reposts"]
                                             ELSE own(p, "repost_count")
                      /\ ~entry.has =>
                            /\ row.views = None
                            /\ row.quotes = None
                            /\ row.shares = None
                            /\ row.likes = own(p, "like_count")
                            /\ row.replies = own(p, "reply_count")
                            /\ row.reposts = own(p, "repost_count")

\* C30 witness: post "1" with the full insight set and post "2", which has no
\* insight set and no reply counter, were aggregated into two rows.
C30_Witness ==
    /\ agg_called
    /\ Len(agg_posts) = 2
    /\ Len(agg_rows) = 2
    /\ agg_rows[1].post_id = "1" /\ agg_rows[1].views = 120 /\ agg_rows[1].likes = 15
    /\ agg_posts[1].like_count = 10
    /\ agg_rows[2].post_id = "2" /\ agg_rows[2].views = None
    /\ agg_rows[2].likes = 5 /\ agg_rows[2].replies = 0

(***************************************************************************)
(* Claims about write_posts_metrics (checked under SpecSheet)              *)
(***************************************************************************)

\* The normalized (account_name, post_id) pairs of a sequence of rows.
KeySet(rows) == {key_of(normalize_keys(rows)[i]) : i \in DOMAIN rows}

UniqueKeys(rows) ==
    \A i, j \in DOMAIN rows :
        i # j => key_of(normalize_keys(rows)[i]) # key_of(normalize_keys(rows)[j])

Wrote == sheet_phase \in {"written", "rewritten"}

\* C22 as stated: after a write_posts_metrics call that returned, no two data
\* rows of the sheet share the normalized (account_name, post_id) pair,
\* whatever the snapshot and the batch were.
C22_KeysUniqueAfterAnyWrite == Wrote => UniqueKeys(sheet)

\* C22: after a write_posts_metrics call with a non-empty batch, no two data
\* rows of the sheet share the normalized (account_name, post_id) pair, also
\* when the snapshot held rows with the same key or the batch held a post
\* twice; a call with an empty batch returns before the sheet is read and
\* leaves its rows as they were.
C22_KeysUniqueAfterMerge ==
    /\ (Wrote /\ batch # <<>>) => UniqueKeys(sheet)
    /\ (Wrote /\ batch = <<>>) => (sheet = sheet_before /\ written = 0)

\* C22 witness: a snapshot with two rows of one key and a batch with one post
\* twice were merged into a sheet of two rows.
C22_Witness ==
    /\ sheet_phase = "written"
    /\ Len(sheet_before) = 2 /\ ~UniqueKeys(sheet_before)
    /\ Len(batch) = 2 /\ ~UniqueKeys(batch)
    /\ Len(sheet) = 2 /\ UniqueKeys(sheet)

\* A row without its updated_at stamp and with its key cells as text.
Unstamped(row) == [normalize_keys(<<row>>)[1] EXCEPT !.updated_at = None]

InBatch(row) == key_of(normalize_keys(<<row>>)[1]) \in KeySet(batch)

\* C23 as stated: a second write_posts_metrics call with the same rows
\* issues no write.
C23_SecondMergeWritesNothing == sheet_phase = "rewritten" => written = 0

\* C23: a second write_posts_metrics call with the same non-empty rows issues
\* one batch_update again, over the header and every data row; it leaves the
\* same rows in the sheet, the rows of the batch with a new updated_at stamp
\* and the other rows as they were.
C23_SecondMergeRewritesSameRows ==
    (sheet_phase = "rewritten" /\ batch # <<>>) =>
        /\ written = 1 + Len(sheet)
        /\ Len(sheet) = Len(sheet_before)
        /\ {Unstamped(sheet[i]) : i \in DOMAIN sheet}
               = {Unstamped(sheet_before[i]) : i \in DOMAIN sheet_before}
        /\ \A i \in DOMAIN sheet :
              IF InBatch(sheet[i]) THEN sheet[i].updated_at = 2
              ELSE \E j \in DOMAIN sheet_before : sheet_before[j] = sheet[i]

\* C23 witness: the second call rewrote a sheet of three rows, one of them
\* not in the batch.
C23_Witness ==
    /\ sheet_phase = "rewritten"
    /\ Len(batch) = 2 /\ UniqueKeys(batch)
    /\ Len(sheet) = 3
    /\ written = 4
    /\ \E i \in DOMAIN sheet : ~InBatch(sheet[i]) /\ sheet[i].updated_at = 0

\* The keys of the rows of a sheet, top to bottom.
KeyIds(rows) == [i \in DOMAIN rows |-> <<rows[i].account_name, rows[i].post_id.id>>]

MergedPosition(row) ==
    CHOOSE n \in DOMAIN merged : key_of(merged[n]) = key_of(row)

C26_EveryUntouchedRowSurvives ==
    Wrote =>
        /\ \A j \in DOMAIN sheet_before :
              ~InBatch(sheet_before[j]) =>
                  \E i \in DOMAIN sheet :
                      sheet[i] = normalize_keys(sheet_before)[j]
        /\ Len(sheet) = Cardinality(KeySet(sheet_before) \cup KeySet(batch))

\* C26: after a write with a non-empty batch, for every key of the snapshot
\* that is not in the batch the sheet holds the last snapshot row with that
\* key, with the same value in every column, its updated_at stamp included
\* (an earlier snapshot row with the same key is dropped), and the sheet has
\* as many data rows as the snapshot and the batch have distinct keys; a
\* write with an empty batch leaves every row as it was.
C26_LastUntouchedRowSurvives ==
    /\ (Wrote /\ batch # <<>>) =>
          /\ \A j \in DOMAIN sheet_before :
                ( /\ ~InBatch(sheet_before[j])
                  /\ \A k \in DOMAIN sheet_before :
                        k > j => KeyIds(sheet_before)[k] # KeyIds(sheet_before)[j] )
                => \E i \in DOMAIN sheet :
                      sheet[i] = normalize_keys(sheet_before)[j]
          /\ Len(sheet) = Cardinality(KeySet(sheet_before) \cup KeySet(batch))
    /\ (Wrote /\ batch = <<>>) => sheet = sheet_before

\* C26 witness: a snapshot row whose key is not in the batch is in the sheet
\* with the stamp it had, next to a row the batch updated and a row it added.
C26_Witness ==
    /\ sheet_phase = "written"
    /\ Len(sheet_before) = 2 /\ UniqueKeys(sheet_before)
    /\ Len(batch) = 2 /\ Len(sheet) = 3
    /\ \E i \in DOMAIN sheet, j \in DOMAIN sheet_before :
          /\ ~InBatch(sheet[i])
          /\ sheet[i] = normalize_keys(sheet_before)[j]
          /\ sheet[i].updated_at = 0
    /\ \E j \in DOMAIN sheet_before : InBatch(sheet_before[j])

\* C27 as stated: a row whose key is not in the batch gets no formatting
\* request.
C27_FormatsOnlyChangedRows ==
    Wrote => \A i \in DOMAIN sheet : (i + 1) \in formatted => InBatch(sheet[i])

\* C27: a write_posts_metrics call that wrote the sheet asks for the
\* formatting of every data row, the rows whose key is not in the batch
\* included: the grid rows 2 .. number of data rows + 1; a call with an empty
\* batch asks for none.
C27_FormatsEveryDataRow ==
    /\ (Wrote /\ batch # <<>>) => formatted = 2..(Len(sheet) + 1)
    /\ (Wrote /\ batch = <<>>) => formatted = {}

\* C27 witness: the row of a key that is not in the batch was formatted.
C27_Witness ==
    /\ sheet_phase = "written"
    /\ batch # <<>>
    /\ \E i \in DOMAIN sheet : ~InBatch(sheet[i]) /\ (i + 1) \in formatted

(***************************************************************************)
(* Claims about delivery over runs (checked under SpecDelivery)            *)
(***************************************************************************)

\* C29: delivery to the sheet is at-least-once: between runs, every post
\* that some run fetched is either in the sheet or still after the stored
\* cursor, so that a later run fetches it again; no fetched post lies behind
\* the stored cursor without having been written.
C29_AtLeastOnceDelivery ==
    feed_run \in BetweenRuns =>
        \A p \in feed_seen : p \in feed_sheet \/ p > feed_cursor

(***************************************************************************)
(* Claims about cancel_pending_workflow_runs (checked under SpecCancel)    *)
(***************************************************************************)

QueuedWithId == {gh_runs.queued[i] : i \in DOMAIN gh_runs.queued} \ {None}

\* C31: in an iteration whose two run lists were fetched, a cancel request
\* is sent for every queued run that has an id when a run is in progress,
\* and for no run when none is in progress.
C31_CancelsQueuedIffInProgress ==
    gh_runs.fetched =>
        /\ Len(gh_runs.in_progress) > 0 => gh_cancelled = QueuedWithId
        /\ Len(gh_runs.in_progress) = 0 => gh_cancelled = {}

\* C31 witness: with a run in progress, a queue of a run with an id and a run
\* without one had its run with an id cancelled.
C31_Witness ==
    /\ gh_runs.fetched
    /\ gh_runs.in_progress # <<>>
    /\ gh_runs.queued = <<None, 2>>
    /\ gh_cancelled = {2}

\* C39: a call with max_iterations = N starts at most N iterations, also
\* when iterations end with an error.
C39_AtMostMaxIterations ==
    gh_max # None => gh_iteration <= gh_max

(***************************************************************************)
(* Claims about fetch_posts (checked under SpecPaging)                     *)
(***************************************************************************)

\* The cursor a served page returned: cursors.after, else the "after" of its
\* next URL, else none.
ReturnedCursor(k) ==
    IF pg_pages[k].after # None THEN pg_pages[k].after
    ELSE IF pg_pages[k].next.given THEN pg_pages[k].next.after
    ELSE None

RECURSIVE PostsOfPages(_)
PostsOfPages(k) ==
    IF k = 0 THEN <<>> ELSE PostsOfPages(k - 1) \o pg_pages[k].data

\* C32: the first request carries the "after" argument, every later request
\* the cursor the page before it returned; no request follows a page without
\* a cursor, the call having returned; the result holds the posts of the
\* fetched pages in page order.
C32_PagesFollowCursors ==
    /\ Len(pg_requests) >= 1 => pg_requests[1] = pg_after
    /\ \A k \in 2..Len(pg_requests) :
          /\ ReturnedCursor(k - 1) # None
          /\ pg_requests[k] = ReturnedCursor(k - 1)
    /\ (pg_pages # <<>> /\ ReturnedCursor(Len(pg_pages)) = None) =>
          pg_phase = "returned"
    /\ pg_phase = "returned" => pg_result.posts = PostsOfPages(Len(pg_pages))

\* C32 witness: a call of three pages with posts on more than one page
\* returned after a page without a cursor.
C32_Witness ==
    /\ pg_phase = "returned"
    /\ Len(pg_pages) = 3
    /\ pg_pages[1].data # <<>>
    /\ pg_pages[3].data # <<>>
    /\ ReturnedCursor(3) = None
    /\ pg_pages[1].after = None

\* C33: when no page returned a cursor and a post was fetched, next_cursor
\* is the id of the last fetched post, whether or not the call started from
\* a stored cursor.
C33_LastPostIdIsCursor ==
    (/\ pg_phase = "returned"
     /\ \A k \in DOMAIN pg_pages : ReturnedCursor(k) = None
     /\ pg_result.posts # <<>>) =>
        pg_result.next_cursor = pg_result.posts[Len(pg_result.posts)]

(***************************************************************************)
(* Claims about the requests of collect_insights (SpecRequests and, for    *)
(* termination, FairRequests)                                              *)
(***************************************************************************)

RequestsSent(p) == iq_sent[p].first + iq_sent[p].retry

\* C34: a request is sent for a post only if it has an id, its account has
\* a token and its metrics were never refreshed or were refreshed at least
\* the TTL ago; a post refreshed less than the TTL ago gets no request in
\* the first pass and none in the retry wave.
C34_RequestsOnlyForStalePosts ==
    \A p \in RequestPosts :
        /\ RequestsSent(p) > 0 =>
              /\ iq_posts[p].id
              /\ iq_posts[p].token
              /\ \/ iq_posts[p].updated_at = None
                 \/ CollectNow - iq_posts[p].updated_at >= MetricsTtlTicks
        /\ (/\ iq_posts[p].updated_at # None
            /\ CollectNow - iq_posts[p].updated_at < MetricsTtlTicks) =>
              (iq_sent[p].first = 0 /\ iq_sent[p].retry = 0)

\* C34 witness: collect_insights returned after a retry wave for one post
\* without having sent anything for the other, which was fresh.
C34_Witness ==
    /\ iq_phase = "returned"
    /\ iq_posts["q1"].id /\ iq_posts["q1"].token
    /\ iq_posts["q1"].updated_at = CollectNow - MetricsTtlTicks + 1
    /\ RequestsSent("q1") = 0
    /\ iq_sent["q2"].first > 0
    /\ iq_sent["q2"].retry > 0

\* C37: at most 5 requests per post in the first pass, at most 5 in each of
\* at most 3 retry attempts, at most 20 in all; and collect_insights returns
\* whatever the responses are.
C37_ReturnsWithinTwentyRequests ==
    /\ [](\A p \in RequestPosts :
             /\ iq_sent[p].first <= 5
             /\ iq_sent[p].call <= 5
             /\ iq_calls[p] <= 3
             /\ iq_sent[p].retry <= 15
             /\ RequestsSent(p) <= 20)
    /\ <>(iq_phase = "returned")

\* C37 witness: collect_insights returned after 20 requests for one post.
C37_Witness ==
    /\ iq_phase = "returned"
    /\ \E p \in RequestPosts : RequestsSent(p) = 20

(***************************************************************************)
(* A further claim about the client (checked under SpecClient)             *)
(***************************************************************************)

\* C35: when a request of a task succeeds, the cooldown entry of the task's
\* account is removed and the entries of all other accounts stay as they
\* were.
C35_SuccessClearsOwnCooldownOnly ==
    [][\A t \in Tasks :
          (tpc[t] = "in_flight" /\ tpc'[t] = "returned") =>
              /\ cooldowns'[account_name[t]] = None
              /\ \A b \in Accounts \ {account_name[t]} :
                    cooldowns'[b] = cooldowns[b]]_vars

\* C35 witness: a request for A has returned and A has no entry although
\* another task of A sleeps off a failure whose cooldown has not passed,
\* while B's entry is still there.
C35_Witness ==
    /\ tpc["t1"] = "returned"
    /\ tpc["t2"] = "backoff_sleep"
    /\ wakeAt["t2"] > clock
    /\ cooldowns["A"] = None
    /\ cooldowns["B"] # None

(***************************************************************************)
(* A further claim about the run lock (checked under SpecLock)             *)
(***************************************************************************)

\* C36: a step of an execution that is past its acquisition never changes
\* the run_started_at in the file while the file holds the lock of another
\* execution, taken at another time than its own and not older than the run
\* timeout: neither its writes to the state nor its release clear or
\* overwrite it.
C36_NeverTouchesAnothersLock ==
    [][\A r1, r2 \in Runs :
          ( /\ r1 # r2
            /\ rpc[r1] \in Holding
            /\ rpc'[r1] # rpc[r1]
            /\ rpc[r2] \in Holding
            /\ acquired[r2]
            /\ file.run_started_at # None
            /\ file.run_started_at = mem[r2].run_started_at
            /\ file.run_started_at # mem[r1].run_started_at
            /\ now - file.run_started_at <= RunTimeoutTicks )
          => file'.run_started_at = file.run_started_at]_vars

(***************************************************************************)
(* Further claims about runs and the sheet (checked under SpecDelivery)    *)
(***************************************************************************)

\* C38: a write_posts_metrics call for a run that collected no rows sends
\* no write to the sheet, leaves the sheet as it is and sets
\* last_metrics_write to the time of the call; and a run that starts less
\* than the freshness TTL after last_metrics_write is skipped.
C38_EmptyRunCountsAsFresh ==
    [][/\ (feed_run = "write" /\ feed_fetched = {} /\ feed_run' = "done") =>
             /\ ~feed_writes'.values
             /\ feed_writes'.formatting = "none"
             /\ feed_sheet' = feed_sheet
             /\ feed_lmw' = feed_now
       /\ ( /\ feed_run \in BetweenRuns
            /\ feed_runs' = feed_runs + 1
            /\ feed_lmw # None
            /\ feed_now - feed_lmw < MetricsTtlTicks ) =>
             feed_run' = "skipped"]_vars

\* C38 witness: the first run collected no rows, nothing was written to the
\* sheet, and the second run was skipped.
C38_Witness ==
    /\ feed_runs = 2
    /\ feed_run = "skipped"
    /\ feed_seen = {}
    /\ feed_sheet = {}
    /\ ~feed_writes.values
    /\ feed_lmw # None
    /\ feed_now > feed_lmw

\* C40: when the formatting calls fail after the values were written,
\* write_posts_metrics still returns: the values are in the sheet,
\* last_metrics_write is set to the time of the call and the run ends
\* without an error.
C40_FormattingFailureIsSwallowed ==
    [][(feed_run = "write" /\ feed_writes'.formatting = "failed") =>
          /\ feed_writes'.values
          /\ feed_fetched \subseteq feed_sheet'
          /\ feed_lmw' = feed_now
          /\ feed_run' = "done"]_vars

\* C40 witness: a run ended normally with its posts in the sheet although
\* the formatting calls failed.
C40_Witness ==
    /\ feed_run = "done"
    /\ feed_writes.formatting = "failed"
    /\ feed_writes.values
    /\ feed_sheet # {}
    /\ feed_lmw = feed_now

====
